---- MODULE Spec2Model ----
(***************************************************************************)
(* A model of the DMRG approximation engine of the C3 function-train       *)
(* library (src/src/lib_clinalg/dmrg.c).                                   *)
(*                                                                         *)
(* Specification Spec follows one call of dmrg_approx.  Numeric matrices   *)
(* and cores are followed by their shapes and by where their contents come *)
(* from; the heap blocks holding the Phi/Psi accumulators and the trains   *)
(* are followed one by one (allocated, freed, how often freed).  The rank  *)
(* a truncated SVD returns is any value it may return.                     *)
(***************************************************************************)
EXTENDS Integers, Sequences, FiniteSets, TLC

VARIABLES
    dim,        \* a->dim
    max_sweeps, \* argument of dmrg_approx
    delta,      \* argument of dmrg_approx
    trains,     \* heap of struct FunctionTrain, indexed by pointer
    accs,       \* heap of double* accumulator blocks, indexed by pointer
    phi, psi,   \* the arrays double ** phi, psi of dmrg_approx
    a, b,       \* arguments of dmrg_approx: initial guess, target
    ao, na,     \* locals of dmrg_approx
    temp,       \* local of dmrg_sweep_lrl
    sa, sna,    \* a and na of the running dmrg_sweep_lr / dmrg_sweep_rl
    pc,         \* position in the code
    ii,         \* loop counter of dmrg_approx
    sii,        \* loop counter ii of the running callee
    lsize, rsize, \* locals of the running sweep
    nsweeps,    \* calls of dmrg_sweep_lrl made so far
    nsmall,     \* times the "diff is small" branch was entered
    ret,        \* value returned by dmrg_approx
    faults,     \* undefined behaviour met so far
    alg,        \* the function trains of a train-algebra computation
    four,       \* one call of fourier_expansion_approx_vec
    freg,       \* one run of the functional-regression example
    steps,      \* what each step of the running or last sweep has written
    prov        \* per slot of Phi and Psi, the cores its block was computed from

vars == <<dim, max_sweeps, delta, trains, accs, phi, psi, a, b, ao, na, temp,
          sa, sna, pc, ii, sii, lsize, rsize, nsweeps, nsmall, ret, faults,
          alg, four, freg, steps, prov>>

----------------------------------------------------------------------------
(* Bounds of the model *)

MaxDim == 4

MaxRank == 2

MaxSweeps == 2

(* Grid points on which a univariate function is given *)
NPts == 2

(* Seeds of the function values tried *)
MaxSeed == 2

(* Values of delta tried: below, at and above the placeholder difference *)
Deltas == {5, 10, 20}

----------------------------------------------------------------------------
(* Program constants *)

NULL == 0

(* double diff = 10; *)
DIFF == 10

(* size_t arithmetic is modular; the model keeps a width TLC can hold *)
SizeModulus == 2^30

SizeT(x) == x % SizeModulus

----------------------------------------------------------------------------
(* Shapes: struct Qmarray {nrows, ncols, funcs} and struct FunctionTrain   *)
(* {dim, ranks, cores}                                                     *)

(* funcs is the column-major array of the block's univariate functions,    *)
(* each given by its values on the grid 1..NPts; it is <<>> where only the *)
(* shape is followed                                                       *)
Qm(r, c) == [nrows |-> r, ncols |-> c, funcs |-> <<>>]

(* Entry (i, j) of a block: funcs[j * nrows + i] *)
Entry(Q, i, j) == Q.funcs[j * Q.nrows + i]

(* The block's functions are followed *)
HasFuncs(Q) == Q.funcs # <<>>

(* Integer-valued functions on the grid, one per entry, drawn by seed *)
GenFuncs(r, c, seed, kcore) ==
    [idx \in 0..(r*c - 1) |->
        [x \in 1..NPts |-> ((seed * (idx + 1) + 2 * kcore + 3 * idx
                               + x * (idx + kcore + 1)) % 5) - 2]]

(* Sum of f[0], ..., f[n-1] *)
RECURSIVE SumTo(_, _)
SumTo(f, n) == IF n <= 0 THEN 0 ELSE f[n-1] + SumTo(f, n - 1)

(* generic_function_inner: the inner product of two functions, here the    *)
(* sum over the grid of the products of their values                       *)
generic_function_inner(f, g) == SumTo([x \in 0..(NPts-1) |-> f[x+1] * g[x+1]], NPts)

NoCore == Qm(0, 0)

(* A well-formed train with the given ranks *)
TrainOfRanks(d, r) ==
    [st |-> "live", ranks |-> r,
     cores |-> [kk \in 0..(d-1) |-> Qm(r[kk], r[kk+1])]]

(* A well-formed train with the given ranks and function values *)
TrainOfFuncs(d, r, seed) ==
    [st |-> "live", ranks |-> r,
     cores |-> [kk \in 0..(d-1) |->
                  [nrows |-> r[kk], ncols |-> r[kk+1],
                   funcs |-> GenFuncs(r[kk], r[kk+1], seed, kk)]]]

(* function_train_alloc(dim): ranks unset, every core NULL *)
function_train_alloc(d) ==
    [st |-> "live", ranks |-> [kk \in 0..d |-> 0],
     cores |-> [kk \in 0..(d-1) |-> NoCore]]

(* A copy that is not the train copied: every rank is 1 *)
function_train_copy_rank_one(t) ==
    [st |-> "live", ranks |-> [kk \in DOMAIN t.ranks |-> 1],
     cores |-> [kk \in DOMAIN t.cores |-> Qm(1, 1)]]

(* function_train_copy: a deep copy, same ranks and core shapes *)
function_train_copy(t) == [st |-> "live", ranks |-> t.ranks, cores |-> t.cores]

(* function_train_orthor: a new, right-orthogonalised train; the LQ        *)
(* factors keep every core's shape.  Where function values are followed    *)
(* the new cores' functions are drawn by seed: the LQ factors are not      *)
(* computed                                                                *)
function_train_orthor(t, seed) ==
    [st |-> "live", ranks |-> t.ranks,
     cores |-> [kk \in DOMAIN t.cores |->
                  IF HasFuncs(t.cores[kk])
                  THEN [t.cores[kk] EXCEPT
                          !.funcs = GenFuncs(t.cores[kk].nrows, t.cores[kk].ncols, seed, kk)]
                  ELSE t.cores[kk]]]

(* Seeds function_train_orthor may draw *)
OrthorSeeds(t) == IF HasFuncs(t.cores[0]) THEN 0..MaxSeed ELSE {0}

FreedTrain == [st |-> "freed", ranks |-> <<>>, cores |-> <<>>]

(* function_train_free(p): NULL is accepted *)
function_train_free(h, p) ==
    IF p = NULL THEN h ELSE [h EXCEPT ![p] = FreedTrain]

(* qmam(Q, mat, n): Q * mat, an nrows(Q) x n block *)
qmam(Q, mat, n) == Qm(Q.nrows, n)

(* mqma(mat, Q, n): mat * Q, an n x ncols(Q) block *)
mqma(mat, Q, n) == Qm(n, Q.ncols)

(* qmarray_householder_simple: the orthonormal factor has the shape of its *)
(* argument                                                                *)
qmarray_householder_simple(dir, Q) == Qm(Q.nrows, Q.ncols)

(* A truncated SVD that may discard every singular value *)
truncated_svd_may_return_zero(dimtemp) == 0..dimtemp

(* truncated_svd of a dimtemp x dimtemp matrix: the ranks it may return *)
truncated_svd(dimtemp) == 1..dimtemp

----------------------------------------------------------------------------
(* Accumulator blocks: calloc_double / free *)

(* data is the flat array of doubles, indexed from 0, or <<>> where only   *)
(* the shape is followed                                                   *)
Block(r, c, v, dt) ==
    [st |-> "live", rows |-> r, cols |-> c, val |-> v, data |-> dt, frees |-> 0]

(* calloc_double(1) followed by [0] = 1.0 *)
OneBlock == Block(1, 1, "one", [x \in {0} |-> 1])

FreedBlock(n) ==
    [st |-> "freed", rows |-> 0, cols |-> 0, val |-> "none", data |-> <<>>, frees |-> n]

(* free(p): free(NULL) does nothing *)
free(h, p) ==
    IF p = NULL THEN h ELSE [h EXCEPT ![p] = FreedBlock(h[p].frees + 1)]

(* Whether free(p) frees a block that is already freed *)
DoubleFree(h, p) == p # NULL /\ h[p].st = "freed"

(* Reading block p as an r x c matrix runs off the block, or p is no block *)
ReadFault(h, p, r, c) ==
    \/ p = NULL
    \/ h[p].st # "live"
    \/ r * c > h[p].rows * h[p].cols

(* dmrg_update_right with the overlap matrix read transposed *)
dmrg_update_right_transposed(psikp, left, right) ==
    LET nrows == left.nrows
        ncols == right.nrows
        lc == left.ncols
        rc == right.ncols
        total == ncols * nrows * lc * rc
        l(n) == n % rc
        k(n) == (n \div rc) % lc
        j(n) == (n \div (rc * lc)) % nrows
        i(n) == n \div (rc * lc * nrows)
        term(n) == psikp[k(n) * right.ncols + l(n)]
                     * generic_function_inner(left.funcs[k(n) * left.nrows + j(n)],
                                              right.funcs[l(n) * right.nrows + i(n)])
    IN [idx \in 0..(left.nrows * right.nrows - 1) |->
          SumTo([n \in 0..(total-1) |->
                    IF i(n) * nrows + j(n) = idx THEN term(n) ELSE 0], total)]

(* dmrg_update_right(psikp, left, right), lines 59-82: val is calloc'ed    *)
(* with left->nrows * right->nrows zeros and every iteration (ii, jj, kk,  *)
(* ll) of the four loops adds its term to val[ii*nrows+jj].  Iteration n   *)
(* of the flattened loops has ll = n % right->ncols, kk the next digit,    *)
(* then jj, then ii.                                                       *)
dmrg_update_right(psikp, left, right) ==
    LET nrows == left.nrows
        ncols == right.nrows
        lc == left.ncols
        rc == right.ncols
        total == ncols * nrows * lc * rc
        l(n) == n % rc
        k(n) == (n \div rc) % lc
        j(n) == (n \div (rc * lc)) % nrows
        i(n) == n \div (rc * lc * nrows)
        term(n) == psikp[l(n) * left.ncols + k(n)]
                     * generic_function_inner(left.funcs[k(n) * left.nrows + j(n)],
                                              right.funcs[l(n) * right.nrows + i(n)])
    IN [idx \in 0..(left.nrows * right.nrows - 1) |->
          SumTo([n \in 0..(total-1) |->
                    IF i(n) * nrows + j(n) = idx THEN term(n) ELSE 0], total)]

(* The iterations (ii, jj, kk, ll) of the four loops of lines 68-80; each  *)
(* makes one call of generic_function_inner (line 73)                      *)
dmrg_update_right_calls(left, right) ==
    {<<i, j, k, l>> : i \in 0..(right.nrows - 1), j \in 0..(left.nrows - 1),
                      k \in 0..(left.ncols - 1), l \in 0..(right.ncols - 1)}

(* The block dmrg_update_right returns: left->nrows x right->nrows; its    *)
(* entries are computed where the arguments' values are followed           *)
UpdateRightBlock(psikp, left, right) ==
    Block(left.nrows, right.nrows, "upd",
          IF /\ HasFuncs(left) /\ HasFuncs(right)
             /\ psikp.st = "live" /\ psikp.data # <<>>
             /\ left.ncols * right.ncols <= psikp.rows * psikp.cols
          THEN dmrg_update_right(psikp.data, left, right)
          ELSE <<>>)

(* Shape of the matrix dmrg_update_left returns *)
UpdateLeftBlock(left, right) == Block(left.ncols, right.ncols, "upd", <<>>)

----------------------------------------------------------------------------
(* Inputs *)

(* Rank sequences tried: rank r on the cuts c and c+1, 1 elsewhere *)
RankProfile(d, c, r) ==
    [kk \in 0..d |-> IF kk \in {c, c+1} /\ kk > 0 /\ kk < d THEN r ELSE 1]

RankProfiles(d) == {RankProfile(d, c, r) : c \in 0..(d-1), r \in 1..MaxRank}

UniformProfiles(d) == {[kk \in 0..d |-> IF kk > 0 /\ kk < d THEN r ELSE 1] : r \in 1..MaxRank}

(* The state at the call of dmrg_approx, the arguments apart *)
InitLocals ==
    /\ b = 1 /\ a = 2
    /\ accs = <<>>
    /\ phi = <<>> /\ psi = <<>>
    /\ ao = NULL /\ na = NULL /\ temp = NULL /\ sa = NULL /\ sna = NULL
    /\ pc = "entry"
    /\ ii = 0 /\ sii = 0 /\ lsize = 0 /\ rsize = 0
    /\ nsweeps = 0 /\ nsmall = 0
    /\ ret = NULL
    /\ faults = {}
    /\ alg = [op |-> "none"]
    /\ four = [pc |-> "none"]
    /\ freg = [pc |-> "none"]
    /\ steps = <<>>
    /\ prov = <<>>

(* A call of dmrg_approx on a target and a guess of which the shapes are    *)
(* followed                                                                *)
Init ==
    /\ dim \in 2..MaxDim
    /\ max_sweeps \in 0..MaxSweeps
    /\ delta \in Deltas
    /\ \E rb \in RankProfiles(dim), ra \in UniformProfiles(dim) :
          trains = <<TrainOfRanks(dim, rb), TrainOfRanks(dim, ra)>>
    /\ InitLocals

(* A call of dmrg_approx on a target and a guess of which the function      *)
(* values are followed                                                     *)
InitRight ==
    /\ dim \in 2..MaxDim
    /\ max_sweeps = 0
    /\ delta = DIFF
    /\ \E rb \in RankProfiles(dim), ra \in UniformProfiles(dim), seed \in 0..MaxSeed :
          trains = <<TrainOfFuncs(dim, rb, seed), TrainOfFuncs(dim, ra, seed + 1)>>
    /\ InitLocals

----------------------------------------------------------------------------
(* The cores a boundary block [1.0] was computed from: none *)
NoProvenance == <<>>

(* The provenance of the slots of the arrays of lines 414-420, all NULL *)
NullSlots(d) ==
    [phi |-> [kk \in 0..(d-2) |-> NoProvenance],
     psi |-> [kk \in 0..(d-2) |-> NoProvenance]]

(* dmrg_approx, lines 412-420 *)
ApproxEnter ==
    /\ pc = "entry"
    /\ \E seed \in OrthorSeeds(trains[a]) :
          trains' = Append(trains, function_train_orthor(trains[a], seed))
    /\ ao' = Len(trains) + 1
    /\ phi' = [kk \in 0..(dim-2) |-> NULL]
    /\ psi' = [kk \in 0..(dim-2) |-> NULL]
    /\ prov' = NullSlots(dim)
    /\ pc' = "all_right"
    /\ UNCHANGED <<dim, max_sweeps, delta, accs, a, b, na, temp, sa, sna, ii,
                   sii, lsize, rsize, nsweeps, nsmall, ret, faults>>
    /\ UNCHANGED <<alg, four, freg, steps>>

----------------------------------------------------------------------------
(* dmrg_update_all_right(b, ao, psi), lines 94-112: mats is psi, its       *)
(* parameter a is the target b and its parameter b is the guess ao         *)

(* Appends a block to the heap; its pointer is the new length *)
Alloc(h, blk) == Append(h, blk)

(* The matrices a garbage read may produce *)
GarbageBlocks == {Block(r, c, "garbage", <<>>) : r \in 1..MaxRank, c \in 1..MaxRank}

(* The cores the block dmrg_update_right(psikp, left, right) was computed   *)
(* from: left (a core of the target), right (a core of the guess), and the  *)
(* cores psikp was computed from, which lie to their right                  *)
RightProvenance(left, right, from) ==
    <<[target |-> left, guess |-> right]>> \o from

(* The cores the block dmrg_update_left(phik, left, right) was computed     *)
(* from: the cores phik was computed from, then left (a core of the guess)  *)
(* and right (a core of the target)                                         *)
LeftProvenance(from, left, right) ==
    Append(from, [target |-> right, guess |-> left])

(* lines 98-103 and the initialiser of the loop at line 104 *)
AllRightBoundary ==
    /\ pc = "all_right"
    /\ LET h1 == free(accs, psi[dim-2])
       IN /\ accs' = Alloc(h1, OneBlock)
          /\ psi' = [psi EXCEPT ![dim-2] = Len(accs) + 1]
    /\ prov' = [prov EXCEPT !.psi[dim-2] = NoProvenance]
    /\ sii' = SizeT(dim - 3)
    /\ pc' = "all_right_loop"
    /\ UNCHANGED <<dim, max_sweeps, delta, trains, phi, a, b, ao, na, temp, sa,
                   sna, ii, lsize, rsize, nsweeps, nsmall, ret, faults>>
    /\ UNCHANGED <<alg, four, freg, steps>>

(* The step writing slot ii takes the cores of the slot's own cut *)
AllRightCoreOffByOne(i) == i + 1

(* The cores of the step writing slot ii, lines 107 and 111 *)
AllRightCore(i) == i + 2

(* The slot the step writing slot ii reads, lines 107 and 111 *)
AllRightSource(i) == i + 1

(* Slot ii, slot ii+1 and core ii+2 exist *)
AllRightInBounds(d, i) == AllRightSource(i) <= d - 2 /\ AllRightCore(i) <= d - 1

(* lines 104-108, one iteration; with an index outside the arrays the      *)
(* behaviour is undefined: the process dies, or the loop is left with      *)
(* memory outside the arrays overwritten                                   *)
AllRightLoop ==
    /\ pc = "all_right_loop"
    /\ sii > 0
    /\ \/ /\ AllRightInBounds(dim, sii)
          /\ LET left == trains[b].cores[AllRightCore(sii)]
                 right == trains[ao].cores[AllRightCore(sii)]
                 h1 == free(accs, psi[sii])
             IN /\ accs' = Alloc(h1, UpdateRightBlock(accs[psi[AllRightSource(sii)]], left, right))
                /\ psi' = [psi EXCEPT ![sii] = Len(accs) + 1]
                /\ prov' = [prov EXCEPT !.psi[sii] =
                               RightProvenance(left, right, prov.psi[AllRightSource(sii)])]
                /\ faults' = IF ReadFault(accs, psi[AllRightSource(sii)], left.ncols, right.ncols)
                             THEN faults \cup {"oob_read"} ELSE faults
          /\ sii' = sii - 1
          /\ pc' = "all_right_loop"
       \/ /\ ~AllRightInBounds(dim, sii)
          /\ pc' = "abort"
          /\ UNCHANGED <<accs, psi, sii, faults, prov>>
       \/ /\ ~AllRightInBounds(dim, sii)
          /\ faults' = faults \cup {"oob_index"}
          /\ sii' = 0
          /\ pc' = "all_right_loop"
          /\ UNCHANGED <<accs, psi, prov>>
    /\ UNCHANGED <<dim, max_sweeps, delta, trains, phi, a, b, ao, na, temp, sa,
                   sna, ii, lsize, rsize, nsweeps, nsmall, ret>>
    /\ UNCHANGED <<alg, four, freg, steps>>

(* lines 109-111 and the return to dmrg_approx (line 431); mats[1] and     *)
(* cores[2] do not exist when dim = 2                                      *)
AllRightFinal ==
    /\ pc = "all_right_loop"
    /\ sii = 0
    /\ \/ /\ AllRightInBounds(dim, 0)
          /\ LET left == trains[b].cores[AllRightCore(0)]
                 right == trains[ao].cores[AllRightCore(0)]
                 h1 == free(accs, psi[0])
             IN /\ accs' = Alloc(h1, UpdateRightBlock(accs[psi[AllRightSource(0)]], left, right))
                /\ psi' = [psi EXCEPT ![0] = Len(accs) + 1]
                /\ prov' = [prov EXCEPT !.psi[0] =
                               RightProvenance(left, right, prov.psi[AllRightSource(0)])]
                /\ faults' = IF ReadFault(accs, psi[AllRightSource(0)], left.ncols, right.ncols)
                             THEN faults \cup {"oob_read"} ELSE faults
          /\ pc' = "loop_head"
       \/ /\ ~AllRightInBounds(dim, 0)
          /\ pc' = "abort"
          /\ UNCHANGED <<accs, psi, faults, prov>>
       \/ /\ ~AllRightInBounds(dim, 0)
          /\ \E g \in GarbageBlocks :
                /\ accs' = Alloc(free(accs, psi[0]), g)
                /\ psi' = [psi EXCEPT ![0] = Len(accs) + 1]
          /\ prov' = [prov EXCEPT !.psi[0] = NoProvenance]
          /\ faults' = faults \cup {"oob_index"}
          /\ pc' = "loop_head"
    /\ ii' = 0
    /\ UNCHANGED <<dim, max_sweeps, delta, trains, phi, a, b, ao, na, temp, sa,
                   sna, sii, lsize, rsize, nsweeps, nsmall, ret>>
    /\ UNCHANGED <<alg, four, freg, steps>>

----------------------------------------------------------------------------
(* dmrg_approx, lines 431-459 *)

(* A loop that stops early once the difference is below delta *)
LoopStopsWhenSmall(i, n, dl) == i < n /\ ~(i > 0 /\ DIFF < dl)

(* The loop test of line 432 *)
LoopContinues(i, n, dl) == i < n

(* The test written with <= *)
DiffIsSmallOrEqual(diff, dl) == diff <= dl

(* The test of line 443 *)
DiffIsSmall(diff, dl) == diff < dl

(* lines 432-437 up to the call of dmrg_sweep_lrl(ao, b, phi, psi, epsilon), *)
(* or the loop's exit                                                       *)
ApproxLoopHead ==
    /\ pc = "loop_head"
    /\ IF LoopContinues(ii, max_sweeps, delta)
       THEN /\ trains' = function_train_free(trains, na)
            /\ na' = NULL
            /\ sa' = ao
            /\ nsweeps' = nsweeps + 1
            /\ pc' = "lr_begin"
       ELSE /\ pc' = "cleanup"
            /\ UNCHANGED <<trains, na, sa, nsweeps>>
    /\ UNCHANGED <<dim, max_sweeps, delta, accs, phi, psi, a, b, ao, temp, sna,
                   ii, sii, lsize, rsize, nsmall, ret, faults>>
    /\ UNCHANGED <<alg, four, freg, steps, prov>>

(* lines 439-450: the placeholder difference, the copy, the increment *)
ApproxAfterSweep ==
    /\ pc = "after_sweep"
    /\ nsmall' = IF DiffIsSmall(DIFF, delta) THEN nsmall + 1 ELSE nsmall
    /\ trains' = Append(function_train_free(trains, ao), function_train_copy(trains[na]))
    /\ ao' = Len(trains) + 1
    /\ ii' = ii + 1
    /\ pc' = "loop_head"
    /\ UNCHANGED <<dim, max_sweeps, delta, accs, phi, psi, a, b, na, temp, sa,
                   sna, sii, lsize, rsize, nsweeps, ret, faults>>
    /\ UNCHANGED <<alg, four, freg, steps, prov>>

(* Frees every slot of an accumulator array, lines 452-455 *)
RECURSIVE FreeAll(_, _, _)
FreeAll(h, arr, n) ==
    IF n < 0 THEN h ELSE FreeAll(free(h, arr[n]), arr, n - 1)

(* lines 451-459 *)
ApproxCleanup ==
    /\ pc = "cleanup"
    /\ trains' = function_train_free(trains, ao)
    /\ ao' = NULL
    /\ accs' = FreeAll(FreeAll(accs, phi, dim - 2), psi, dim - 2)
    /\ prov' = <<>>
    /\ phi' = <<>>
    /\ psi' = <<>>
    /\ ret' = na
    /\ pc' = "done"
    /\ UNCHANGED <<dim, max_sweeps, delta, a, b, na, temp, sa, sna, ii, sii,
                   lsize, rsize, nsweeps, nsmall, faults>>
    /\ UNCHANGED <<alg, four, freg, steps>>

----------------------------------------------------------------------------
(* dmrg_sweep_lr(a, b, phi, psi, epsilon), lines 166-263 *)

(* lines 170-185 *)
SweepLRBegin ==
    /\ pc = "lr_begin"
    /\ trains' = Append(trains, [function_train_alloc(dim) EXCEPT
                                    !.ranks[0] = 1, !.ranks[dim] = 1])
    /\ sna' = Len(trains) + 1
    /\ IF phi[0] = NULL
       THEN /\ accs' = Alloc(accs, OneBlock)
            /\ phi' = [phi EXCEPT ![0] = Len(accs) + 1]
            /\ prov' = [prov EXCEPT !.phi[0] = NoProvenance]
       ELSE UNCHANGED <<accs, phi, prov>>
    /\ lsize' = 1
    /\ sii' = 0
    /\ steps' = <<>>
    /\ pc' = "lr_loop"
    /\ UNCHANGED <<dim, max_sweeps, delta, psi, a, b, ao, na, temp, sa, ii,
                   rsize, nsweeps, nsmall, ret, faults>>
    /\ UNCHANGED <<alg, four, freg>>

(* The old Phi[ii+1] is kept allocated *)
LRKeepOld(h, p) == h

(* free(phi[ii+1]) of line 245 *)
LRFreeOld(h, p) == free(h, p)

(* rsize of lines 189-194 *)
LRrsize(A, d, i) == IF i = d - 2 THEN 1 ELSE A.cores[i+1].ncols

(* lsize after line 249 *)
LRNextLsize(A, N, i) == A.cores[i].ncols

(* The reads of phi[ii] and psi[ii] one step of the left-right sweep makes *)
(* (lines 198, 209, 246) run off a block                                   *)
LRReadFault(h, A, B, N, i, ls, rs) ==
    \/ ReadFault(h, psi[i], B.cores[i+1].ncols, rs)
    \/ ReadFault(h, phi[i], ls, B.cores[i].nrows)

(* Every step sets the core to its right too *)
LRLastStepAlways(d, i) == TRUE

(* The test of line 231: the step sets the last core too *)
LRLastStep(d, i) == (i + 1) = d - 1

(* The step overwrites the slot of Phi it has read *)
LRNextPhiInPlace(i) == i

(* The slot of Phi the step writes, lines 245-246 *)
LRNextPhi(i) == i + 1

(* What step i of the left-to-right sweep writes: core i (line 230), the    *)
(* last core at the last step (lines 231-238), and Phi[i+1] from Phi[i],    *)
(* the new core i and the target's core i (lines 244-247)                   *)
LRStepRecord(d, i) ==
    [dir |-> "lr", k |-> i,
     cores |-> {<<i, "tempr*u">>}
               \cup (IF LRLastStep(d, i) THEN {<<i + 1, "(s*vt)*templ">>} ELSE {}),
     acc |-> IF i < d - 2
             THEN {[fam |-> "phi", slot |-> LRNextPhi(i), from |-> i,
                    newcore |-> i, target |-> i]}
             ELSE {}]

(* lines 186-260, one iteration of the loop *)
SweepLRStep ==
    /\ pc = "lr_loop"
    /\ sii < dim - 1
    /\ LET A == trains[sa]
           B == trains[b]
           dimtemp == B.cores[sii].ncols
           rs == LRrsize(A, dim, sii)
           newcorer == qmam(B.cores[sii+1], psi[sii], rs)
           templ == qmarray_householder_simple("LQ", newcorer)
           newcorel == mqma(phi[sii], B.cores[sii], lsize)
           tempr == qmarray_householder_simple("QR", newcorel)
           bad == LRReadFault(accs, A, B, trains[sna], sii, lsize, rs)
       IN \/ /\ bad
             /\ pc' = "abort"
             /\ UNCHANGED <<trains, accs, phi, sii, lsize, rsize, faults,
                            steps, prov>>
          \/ \E rank \in truncated_svd(dimtemp) :
               LET core_ii == qmam(tempr, "u", rank)
                   N1 == [trains[sna] EXCEPT !.ranks[sii+1] = rank,
                                             !.cores[sii] = core_ii]
                   N2 == IF LRLastStep(dim, sii)
                         THEN [N1 EXCEPT !.cores[sii+1] = mqma("vt", templ, rank)]
                         ELSE N1
               IN /\ trains' = [trains EXCEPT ![sna] = N2]
                  /\ IF sii < dim - 2
                     THEN /\ accs' = Alloc(LRFreeOld(accs, phi[LRNextPhi(sii)]),
                                           UpdateLeftBlock(core_ii, B.cores[sii]))
                          /\ phi' = [phi EXCEPT ![LRNextPhi(sii)] = Len(accs) + 1]
                          /\ prov' = [prov EXCEPT !.phi[LRNextPhi(sii)] =
                                         LeftProvenance(prov.phi[sii], core_ii, B.cores[sii])]
                     ELSE UNCHANGED <<accs, phi, prov>>
                  /\ steps' = Append(steps, LRStepRecord(dim, sii))
                  /\ lsize' = LRNextLsize(A, N2, sii)
                  /\ rsize' = rs
                  /\ sii' = sii + 1
                  /\ faults' = IF bad THEN faults \cup {"oob_read"} ELSE faults
                  /\ pc' = "lr_loop"
    /\ UNCHANGED <<dim, max_sweeps, delta, psi, a, b, ao, na, temp, sa, sna, ii,
                   nsweeps, nsmall, ret>>
    /\ UNCHANGED <<alg, four, freg>>

(* line 262, and line 397 of dmrg_sweep_lrl: temp is the train returned;   *)
(* then the call dmrg_sweep_rl(temp, b, phi, psi, epsilon) of line 398      *)
SweepLRReturn ==
    /\ pc = "lr_loop"
    /\ ~(sii < dim - 1)
    /\ temp' = sna
    /\ sa' = sna
    /\ pc' = "rl_begin"
    /\ UNCHANGED <<dim, max_sweeps, delta, trains, accs, phi, psi, a, b, ao, na,
                   sna, ii, sii, lsize, rsize, nsweeps, nsmall, ret, faults>>
    /\ UNCHANGED <<alg, four, freg, steps, prov>>

----------------------------------------------------------------------------
(* dmrg_sweep_rl(a, b, phi, psi, epsilon), lines 276-379 *)

(* lines 280-297 (the loop's initialiser included) *)
SweepRLBegin ==
    /\ pc = "rl_begin"
    /\ trains' = Append(trains, [function_train_alloc(dim) EXCEPT
                                    !.ranks[0] = 1, !.ranks[dim] = 1])
    /\ sna' = Len(trains) + 1
    /\ IF psi[dim-2] = NULL
       THEN /\ accs' = Alloc(accs, OneBlock)
            /\ psi' = [psi EXCEPT ![dim-2] = Len(accs) + 1]
            /\ prov' = [prov EXCEPT !.psi[dim-2] = NoProvenance]
       ELSE UNCHANGED <<accs, psi, prov>>
    /\ rsize' = 1
    /\ sii' = dim - 2
    /\ steps' = <<>>
    /\ pc' = "rl_loop"
    /\ UNCHANGED <<dim, max_sweeps, delta, phi, a, b, ao, na, temp, sa, ii,
                   lsize, nsweeps, nsmall, ret, faults>>
    /\ UNCHANGED <<alg, four, freg>>

(* The step frees the slot of Psi it has read *)
RLFreeSource(h, p) == free(h, psi[sii])

(* free(psi[ii-1]) of line 360 *)
RLFreeOld(h, p) == free(h, p)

(* lsize of lines 303-308 *)
RLlsize(A, i) == IF i = 0 THEN 1 ELSE A.cores[i-1].ncols

(* rsize after line 365 *)
RLNextRsize(A, N, i) == A.cores[i+1].nrows

(* The reads of psi[ii] and phi[ii] one step of the right-left sweep makes *)
(* (lines 311, 318, 361) run off a block                                   *)
RLReadFault(h, A, B, N, i, ls, rs) ==
    \/ ReadFault(h, psi[i], B.cores[i+1].ncols, rs)
    \/ ReadFault(h, phi[i], ls, B.cores[i].nrows)

(* Core 0 is set one step early *)
RLLastStepEarly(i) == i = 1

(* The test of line 345: the step sets core 0 too *)
RLLastStep(i) == i = 0

(* The slot of Psi the step writes, lines 360-361 *)
RLNextPsi(i) == i - 1

(* What step i of the right-to-left sweep writes: core i+1 (line 337), core *)
(* 0 at the last step (lines 345-352), and Psi[i-1] from Psi[i], the        *)
(* target's core i+1 and the new core i+1 (lines 359-362)                   *)
RLStepRecord(i) ==
    [dir |-> "rl", k |-> i,
     cores |-> {<<i + 1, "vt*templ">>}
               \cup (IF RLLastStep(i) THEN {<<i, "tempr*(u*s)">>} ELSE {}),
     acc |-> IF i > 0
             THEN {[fam |-> "psi", slot |-> RLNextPsi(i), from |-> i,
                    newcore |-> i + 1, target |-> i + 1]}
             ELSE {}]

(* lines 297-377, one iteration of the loop *)
SweepRLStep ==
    /\ pc = "rl_loop"
    /\ sii > -1
    /\ LET A == trains[sa]
           B == trains[b]
           dimtemp == B.cores[sii].ncols
           ls == RLlsize(A, sii)
           newcorer == qmam(B.cores[sii+1], psi[sii], rsize)
           templ == qmarray_householder_simple("LQ", newcorer)
           newcorel == mqma(phi[sii], B.cores[sii], ls)
           tempr == qmarray_householder_simple("QR", newcorel)
           bad == RLReadFault(accs, A, B, trains[sna], sii, ls, rsize)
       IN \/ /\ bad
             /\ pc' = "abort"
             /\ UNCHANGED <<trains, accs, psi, sii, lsize, rsize, faults,
                            steps, prov>>
          \/ \E rank \in truncated_svd(dimtemp) :
               LET core_r == mqma("vt", templ, rank)
                   N1 == [trains[sna] EXCEPT !.ranks[sii+1] = rank,
                                             !.cores[sii+1] = core_r]
                   N2 == IF RLLastStep(sii)
                         THEN [N1 EXCEPT !.cores[sii] = qmam(tempr, "u", rank)]
                         ELSE N1
               IN /\ trains' = [trains EXCEPT ![sna] = N2]
                  /\ IF sii > 0
                     THEN /\ accs' = Alloc(RLFreeOld(accs, psi[RLNextPsi(sii)]),
                                           UpdateRightBlock(accs[psi[sii]], B.cores[sii+1], core_r))
                          /\ psi' = [psi EXCEPT ![RLNextPsi(sii)] = Len(accs) + 1]
                          /\ prov' = [prov EXCEPT !.psi[RLNextPsi(sii)] =
                                         RightProvenance(B.cores[sii+1], core_r, prov.psi[sii])]
                     ELSE UNCHANGED <<accs, psi, prov>>
                  /\ steps' = Append(steps, RLStepRecord(sii))
                  /\ rsize' = RLNextRsize(A, N2, sii)
                  /\ lsize' = ls
                  /\ sii' = sii - 1
                  /\ faults' = IF bad THEN faults \cup {"oob_read"} ELSE faults
                  /\ pc' = "rl_loop"
    /\ UNCHANGED <<dim, max_sweeps, delta, phi, a, b, ao, na, temp, sa, sna, ii,
                   nsweeps, nsmall, ret>>
    /\ UNCHANGED <<alg, four, freg>>

(* dmrg_sweep_lrl frees the guess it was given *)
SweepLrlFreesGuess == ao

(* The train dmrg_sweep_lrl frees, line 399: the one the left-to-right     *)
(* sweep returned                                                          *)
SweepLrlFrees == temp

(* line 378, and lines 398-400 of dmrg_sweep_lrl, and the assignment of    *)
(* line 437 of dmrg_approx                                                 *)
SweepRLReturn ==
    /\ pc = "rl_loop"
    /\ ~(sii > -1)
    /\ trains' = function_train_free(trains, SweepLrlFrees)
    /\ temp' = NULL
    /\ na' = sna
    /\ sa' = NULL
    /\ sna' = NULL
    /\ pc' = "after_sweep"
    /\ UNCHANGED <<dim, max_sweeps, delta, accs, phi, psi, a, b, ao, ii, sii,
                   lsize, rsize, nsweeps, nsmall, ret, faults>>
    /\ UNCHANGED <<alg, four, freg, steps, prov>>

----------------------------------------------------------------------------
Next ==
    \/ ApproxEnter
    \/ AllRightBoundary
    \/ AllRightLoop
    \/ AllRightFinal
    \/ ApproxLoopHead
    \/ SweepLRBegin
    \/ SweepLRStep
    \/ SweepLRReturn
    \/ SweepRLBegin
    \/ SweepRLStep
    \/ SweepRLReturn
    \/ ApproxAfterSweep
    \/ ApproxCleanup

Spec == Init /\ [][Next]_vars

(* The right-overlap initialisation of a dmrg_approx call, function values  *)
(* followed                                                                *)
NextRight ==
    \/ ApproxEnter
    \/ AllRightBoundary
    \/ AllRightLoop
    \/ AllRightFinal

SpecRight == InitRight /\ [][NextRight]_vars

----------------------------------------------------------------------------
(* Properties of one dmrg_approx call (specification Spec) *)

(* ranks[0] = ranks[dim] = 1 and core[k] is ranks[k] x ranks[k+1] *)
WellFormed(t, d) ==
    /\ t.st = "live"
    /\ t.ranks[0] = 1
    /\ t.ranks[d] = 1
    /\ \A kk \in 0..(d-1) : /\ t.cores[kk].nrows = t.ranks[kk]
                             /\ t.cores[kk].ncols = t.ranks[kk+1]

(* Block p is a live 1 x 1 matrix holding 1.0 *)
IsOne(h, p) == p # NULL /\ h[p] = OneBlock

Returned == pc = "done"

(* C1: dmrg_approx makes exactly max_sweeps calls of dmrg_sweep_lrl, one per *)
(* iteration, whatever delta is: while it runs the calls made are the       *)
(* iterations begun, never more than max_sweeps, and when the loop is left  *)
(* and when the function returns exactly max_sweeps calls were made.        *)
C1_ExactlyMaxSweeps ==
    /\ nsweeps <= max_sweeps
    /\ pc \in {"lr_begin", "lr_loop", "rl_begin", "rl_loop", "after_sweep"}
          => nsweeps = ii + 1
    /\ pc = "loop_head" => nsweeps = ii
    /\ pc \in {"cleanup", "done"} => nsweeps = max_sweeps /\ ii = max_sweeps

(* A run returns after two iterations although delta is above the difference *)
C1_Witness ==
    Returned /\ max_sweeps = 2 /\ nsweeps = 2 /\ delta > DIFF

(* C2: dmrg_approx returns a non-null, live function train for every        *)
(* max_sweeps >= 0.                                                         *)
C2_ReturnsValidTrain ==
    Returned => ret # NULL /\ trains[ret].st = "live"

(* C3 as stated: the "diff is small" branch is never entered. *)
C3_BranchNeverEntered == nsmall = 0

(* C3 amended: the "diff is small" branch is entered in every iteration when *)
(* delta is above the constant difference 10 and in no iteration otherwise.  *)
C3_BranchEnteredIffDeltaAboveDiff ==
    nsmall = IF delta > DIFF THEN ii ELSE 0

(* Two iterations have run with delta above the difference, both entering   *)
(* the branch, and the call has returned after them                         *)
C3_Witness ==
    Returned /\ delta > DIFF /\ ii = 2 /\ nsweeps = 2 /\ nsmall = 2

(* C4: every train a sweep or dmrg_approx returns has ranks[0] = ranks[dim]  *)
(* = 1 and every core[k] of shape ranks[k] x ranks[k+1].                     *)
C4_ReturnedTrainsWellFormed ==
    /\ pc = "rl_begin" => WellFormed(trains[temp], dim)
    /\ pc = "after_sweep" => WellFormed(trains[na], dim)
    /\ Returned /\ ret # NULL => WellFormed(trains[ret], dim)

(* C5: for every dim >= 2 the right-overlap initialisation completes and,    *)
(* wherever a sweep step may read them, Psi[dim-2] and Phi[0] are the 1 x 1  *)
(* matrix [1.0].                                                            *)
C5_BoundaryAccumulatorsAreOne ==
    /\ ~(pc = "abort" /\ nsweeps = 0)
    /\ pc \in {"lr_loop", "rl_loop"}
          => IsOne(accs, psi[dim-2]) /\ IsOne(accs, phi[0])

(* Slots of phi and psi holding pointer p *)
SlotsHolding(p) ==
    {<<"phi", kk>> : kk \in {x \in DOMAIN phi : phi[x] = p}}
        \cup {<<"psi", kk>> : kk \in {x \in DOMAIN psi : psi[x] = p}}

(* C6: for dim >= 3, no accumulator is freed twice, none is left allocated   *)
(* without a slot pointing to it (leaked on replacement), and when           *)
(* dmrg_approx returns every accumulator allocated during the call has been  *)
(* freed exactly once.                                                      *)
C6_AccumulatorsFreedOnce ==
    dim >= 3 =>
        /\ \A p \in 1..Len(accs) :
              /\ accs[p].frees <= 1
              /\ accs[p].st = "live" /\ pc # "abort" => Cardinality(SlotsHolding(p)) = 1
        /\ Returned => \A p \in 1..Len(accs) : accs[p].st = "freed" /\ accs[p].frees = 1

(* A call with two iterations returns, accumulators having been replaced *)
C6_Witness ==
    Returned /\ dim >= 3 /\ max_sweeps = 2 /\ Len(accs) > 2 * (dim - 1)

----------------------------------------------------------------------------
(* Properties of the right-overlap initialisation (specification SpecRight) *)

(* A flat array read as an nb x ncol matrix, M[bb][aa] = flat[bb*ncol + aa] *)
AsMatrix(flat, nb, ncol) ==
    [bb \in 0..(nb-1) |-> [aa \in 0..(ncol-1) |-> flat[bb * ncol + aa]]]

(* contract(P, L, R): for every (row i of L, row j of R),                   *)
(* sum over a, bb of P[bb][a] * inner(L(i, a), R(j, bb))                     *)
Contract(P, L, R) ==
    [i \in 0..(L.nrows-1) |-> [j \in 0..(R.nrows-1) |->
        SumTo([aa \in 0..(L.ncols-1) |->
                 SumTo([bb \in 0..(R.ncols-1) |->
                          P[bb][aa] * generic_function_inner(Entry(L, i, aa), Entry(R, j, bb))],
                       R.ncols)],
              L.ncols)]]

InitialisationDone == pc = "loop_head" /\ nsweeps = 0

(* C7: after the right-overlap initialisation, for every k in 0..dim-3,     *)
(* Psi[k] = contract(Psi[k+1], target.core[k+2], guess.core[k+2]) with the  *)
(* final Psi[k+1], the chain starting from Psi[dim-2] = [1.0].              *)
C7_PsiIsContraction ==
    InitialisationDone =>
        \A kk \in 0..(dim-3) :
            LET L == trains[b].cores[kk+2]
                R == trains[ao].cores[kk+2]
                P == accs[psi[kk]]
                Q == accs[psi[kk+1]]
            IN /\ P.st = "live" /\ Q.st = "live"
               /\ kk = dim - 3 => Q = OneBlock
               /\ DOMAIN P.data = 0..(L.nrows * R.nrows - 1)
               /\ AsMatrix(P.data, R.nrows, L.nrows)
                    = [j \in 0..(R.nrows-1) |-> [i \in 0..(L.nrows-1) |->
                         Contract(AsMatrix(Q.data, R.ncols, L.ncols), L, R)[i][j]]]

(* The initialisation of a four-dimensional pair has filled Psi[1] with a   *)
(* 2 x 2 matrix and Psi[0] from it, with a non-zero entry                   *)
C7_Witness ==
    /\ InitialisationDone
    /\ dim = 4
    /\ faults = {}
    /\ accs[psi[1]].rows = 2 /\ accs[psi[1]].cols = 2
    /\ \E idx \in DOMAIN accs[psi[0]].data : accs[psi[0]].data[idx] # 0
    /\ \E idx \in DOMAIN accs[psi[1]].data : accs[psi[1]].data[idx] # 0

----------------------------------------------------------------------------
(* Train algebra: function_train_linear, function_train_sum,                *)
(* function_train_product, function_train_eval and function_train_round,    *)
(* on trains of which the function values are followed.  Specification      *)
(* SpecAlg builds two trains of one dimension, combines them and rounds.    *)

(* Largest dimension of the trains combined *)
MaxAlgDim == 3

Max(x, y) == IF x >= y THEN x ELSE y

Abs(x) == IF x < 0 THEN 0 - x ELSE x

(* The coordinate of grid point p *)
GridX(p) == p - 1

ZeroFunc == [x \in 1..NPts |-> 0]

OneFunc == [x \in 1..NPts |-> 1]

(* The function x |-> c * x *)
LinFunc(c) == [x \in 1..NPts |-> c * GridX(x)]

(* The pointwise product of two functions *)
FuncProd(f, g) == [x \in 1..NPts |-> f[x] * g[x]]

(* The row and the column of the entry at offset idx of a column-major     *)
(* block of nr rows                                                         *)
RowOf(idx, nr) == idx % nr

ColOf(idx, nr) == idx \div nr

(* [A B]: the columns of B after the columns of A *)
qmarray_stackh(A, B) ==
    [nrows |-> A.nrows, ncols |-> A.ncols + B.ncols,
     funcs |-> [idx \in 0..(A.nrows * (A.ncols + B.ncols) - 1) |->
                  LET i == RowOf(idx, A.nrows)
                      j == ColOf(idx, A.nrows)
                  IN IF j < A.ncols THEN Entry(A, i, j)
                     ELSE Entry(B, i, j - A.ncols)]]

(* [A; B]: the rows of B below the rows of A *)
qmarray_stackv(A, B) ==
    [nrows |-> A.nrows + B.nrows, ncols |-> A.ncols,
     funcs |-> [idx \in 0..((A.nrows + B.nrows) * A.ncols - 1) |->
                  LET i == RowOf(idx, A.nrows + B.nrows)
                      j == ColOf(idx, A.nrows + B.nrows)
                  IN IF i < A.nrows THEN Entry(A, i, j)
                     ELSE Entry(B, i - A.nrows, j)]]

(* The same shape as [A B]: a middle core stitched like a first core *)
qmarray_blockdiag_rows_shared(A, B) ==
    [nrows |-> A.nrows, ncols |-> A.ncols + B.ncols,
     funcs |-> [idx \in 0..(A.nrows * (A.ncols + B.ncols) - 1) |->
                  LET i == RowOf(idx, A.nrows)
                      j == ColOf(idx, A.nrows)
                  IN IF j < A.ncols THEN Entry(A, i, j) ELSE ZeroFunc]]

(* [A 0; 0 B] *)
qmarray_blockdiag(A, B) ==
    [nrows |-> A.nrows + B.nrows, ncols |-> A.ncols + B.ncols,
     funcs |-> [idx \in 0..((A.nrows + B.nrows) * (A.ncols + B.ncols) - 1) |->
                  LET i == RowOf(idx, A.nrows + B.nrows)
                      j == ColOf(idx, A.nrows + B.nrows)
                  IN IF i < A.nrows /\ j < A.ncols THEN Entry(A, i, j)
                     ELSE IF i >= A.nrows /\ j >= A.ncols
                          THEN Entry(B, i - A.nrows, j - A.ncols)
                          ELSE ZeroFunc]]

(* Entry products laid out with the columns added, not multiplied *)
qmarray_kron_cols_added(A, B) ==
    [nrows |-> A.nrows * B.nrows, ncols |-> A.ncols + B.ncols,
     funcs |-> [idx \in 0..(A.nrows * B.nrows * (A.ncols + B.ncols) - 1) |->
                  LET i == RowOf(idx, A.nrows * B.nrows)
                  IN FuncProd(Entry(A, i \div B.nrows, 0),
                              Entry(B, i % B.nrows, 0))]]

(* Rows numbered with A's index first, columns with B's index first *)
qmarray_kron_mixed_layout(A, B) ==
    [nrows |-> A.nrows * B.nrows, ncols |-> A.ncols * B.ncols,
     funcs |-> [idx \in 0..(A.nrows * B.nrows * A.ncols * B.ncols - 1) |->
                  LET i == RowOf(idx, A.nrows * B.nrows)
                      j == ColOf(idx, A.nrows * B.nrows)
                  IN FuncProd(Entry(A, i \div B.nrows, j % A.ncols),
                              Entry(B, i % B.nrows, j \div A.ncols))]]

(* The Kronecker product: entry (i1*rB + i2, j1*cB + j2) = A(i1,j1) * B(i2,j2) *)
qmarray_kron(A, B) ==
    [nrows |-> A.nrows * B.nrows, ncols |-> A.ncols * B.ncols,
     funcs |-> [idx \in 0..(A.nrows * B.nrows * A.ncols * B.ncols - 1) |->
                  LET i == RowOf(idx, A.nrows * B.nrows)
                      j == ColOf(idx, A.nrows * B.nrows)
                  IN FuncProd(Entry(A, i \div B.nrows, j \div B.ncols),
                              Entry(B, i % B.nrows, j % B.ncols))]]

(* A train of the given cores; ranks[k] is the row count of core k and      *)
(* ranks[d] the column count of the last core                               *)
TrainOfCores(d, cs) ==
    [st |-> "live",
     ranks |-> [kk \in 0..d |-> IF kk < d THEN cs[kk].nrows ELSE cs[d-1].ncols],
     cores |-> cs]

(* The cores of a linear train: [c x, 1], [1 0; c x, 1] and [1; c x] *)
LinearFirst(c) ==
    [nrows |-> 1, ncols |-> 2, funcs |-> [idx \in 0..1 |->
        IF idx = 0 THEN LinFunc(c) ELSE OneFunc]]

LinearMiddle(c) ==
    [nrows |-> 2, ncols |-> 2, funcs |-> [idx \in 0..3 |->
        IF RowOf(idx, 2) = ColOf(idx, 2) THEN OneFunc
        ELSE IF RowOf(idx, 2) = 1 THEN LinFunc(c) ELSE ZeroFunc]]

LinearLast(c) ==
    [nrows |-> 2, ncols |-> 1, funcs |-> [idx \in 0..1 |->
        IF idx = 0 THEN OneFunc ELSE LinFunc(c)]]

(* function_train_linear: the rank-2 train of sum_k coeffs[k] * x_k         *)
function_train_linear(coeffs, d) ==
    TrainOfCores(d,
        [kk \in 0..(d-1) |->
            IF kk = 0 THEN LinearFirst(coeffs[kk])
            ELSE IF kk = d - 1 THEN LinearLast(coeffs[kk])
            ELSE LinearMiddle(coeffs[kk])])

(* The cores of function_train_initsum: [f 1], [1 0; f 1] and [1; f] *)
InitSumFirst(f) ==
    [nrows |-> 1, ncols |-> 2, funcs |-> [idx \in 0..1 |->
        IF idx = 0 THEN f ELSE OneFunc]]

(* A middle core with f above the diagonal: the chain then drops terms *)
InitSumMiddleTransposed(f) ==
    [nrows |-> 2, ncols |-> 2, funcs |-> [idx \in 0..3 |->
        IF RowOf(idx, 2) = ColOf(idx, 2) THEN OneFunc
        ELSE IF RowOf(idx, 2) = 0 THEN f ELSE ZeroFunc]]

InitSumMiddle(f) ==
    [nrows |-> 2, ncols |-> 2, funcs |-> [idx \in 0..3 |->
        IF RowOf(idx, 2) = ColOf(idx, 2) THEN OneFunc
        ELSE IF RowOf(idx, 2) = 1 THEN f ELSE ZeroFunc]]

InitSumLast(f) ==
    [nrows |-> 2, ncols |-> 1, funcs |-> [idx \in 0..1 |->
        IF idx = 0 THEN OneFunc ELSE f]]

(* function_train_initsum: the train of f[0](x_0) + ... + f[d-1](x_{d-1}) *)
function_train_initsum(f, d) ==
    TrainOfCores(d,
        [kk \in 0..(d-1) |->
            IF kk = 0 THEN InitSumFirst(f[kk])
            ELSE IF kk = d - 1 THEN InitSumLast(f[kk])
            ELSE InitSumMiddle(f[kk])])

(* function_train_sum: [A B] first, [A 0; 0 B] in the middle, [A; B] last *)
function_train_sum(A, B, d) ==
    TrainOfCores(d,
        [kk \in 0..(d-1) |->
            IF kk = 0 THEN qmarray_stackh(A.cores[kk], B.cores[kk])
            ELSE IF kk = d - 1 THEN qmarray_stackv(A.cores[kk], B.cores[kk])
            ELSE qmarray_blockdiag(A.cores[kk], B.cores[kk])])

(* function_train_product: the Kronecker product of corresponding cores *)
function_train_product(A, B, d) ==
    TrainOfCores(d, [kk \in 0..(d-1) |-> qmarray_kron(A.cores[kk], B.cores[kk])])

(* The first n entries of the row vector v times the block Q evaluated at  *)
(* grid point p                                                             *)
RECURSIVE RowTimesCore(_, _, _, _)
RowTimesCore(v, Q, p, n) ==
    IF n = 0 THEN <<>>
    ELSE Append(RowTimesCore(v, Q, p, n - 1),
                SumTo([i \in 0..(Q.nrows-1) |-> v[i+1] * Entry(Q, i, n-1)[p]],
                      Q.nrows))

(* The block with every entry multiplied by the number s *)
qmarray_scale(Q, s) ==
    [Q EXCEPT !.funcs = [idx \in DOMAIN Q.funcs |->
                            [x \in 1..NPts |-> s * Q.funcs[idx][x]]]]

(* Every core multiplied by the factor, not one *)
function_train_scale_every_core(t, d, s) ==
    [t EXCEPT !.cores = [kk \in 0..(d-1) |-> qmarray_scale(t.cores[kk], s)]]

(* function_train_scale: the entries of core[0] multiplied by the factor *)
function_train_scale(t, d, s) ==
    [t EXCEPT !.cores = [kk \in 0..(d-1) |->
                            IF kk = 0 THEN qmarray_scale(t.cores[kk], s)
                            ELSE t.cores[kk]]]

(* The running row vector of function_train_eval after cores 0..k-1 *)
RECURSIVE EvalRow(_, _, _)
EvalRow(t, k, x) ==
    IF k = 0 THEN <<1>>
    ELSE RowTimesCore(EvalRow(t, k - 1, x), t.cores[k-1], x[k-1],
                      t.cores[k-1].ncols)

(* function_train_eval at the grid points x[0..d-1] *)
function_train_eval(t, d, x) == EvalRow(t, d, x)[1]

(* generic_function_integrate: the integral of a function, here the sum of *)
(* its values over the grid                                                 *)
generic_function_integrate(f) == SumTo([x \in 0..(NPts-1) |-> f[x+1]], NPts)

(* The first n entries of the row vector v times the block Q integrated     *)
(* entry by entry                                                           *)
RECURSIVE RowTimesIntegral(_, _, _)
RowTimesIntegral(v, Q, n) ==
    IF n = 0 THEN <<>>
    ELSE Append(RowTimesIntegral(v, Q, n - 1),
                SumTo([i \in 0..(Q.nrows-1) |->
                          v[i+1] * generic_function_integrate(Entry(Q, i, n-1))],
                      Q.nrows))

(* The running row vector of function_train_integrate after cores 0..k-1 *)
RECURSIVE IntegrateRow(_, _)
IntegrateRow(t, k) ==
    IF k = 0 THEN <<1>>
    ELSE RowTimesIntegral(IntegrateRow(t, k - 1), t.cores[k-1], t.cores[k-1].ncols)

(* function_train_integrate: the chain of eval with integrals for values *)
function_train_integrate(t, d) == IntegrateRow(t, d)[1]

(* The first n entries of f[0..], as a sequence *)
RECURSIVE SeqOf(_, _)
SeqOf(f, n) == IF n = 0 THEN <<>> ELSE Append(SeqOf(f, n - 1), f[n-1])

(* dmrg_update_left with the overlap matrix read transposed *)
dmrg_update_left_transposed(phik, left, right) ==
    LET nrows == left.ncols
        ncols == right.ncols
        total == ncols * nrows * left.nrows * right.nrows
        l(n) == n % right.nrows
        k(n) == (n \div right.nrows) % left.nrows
        j(n) == (n \div (right.nrows * left.nrows)) % nrows
        i(n) == n \div (right.nrows * left.nrows * nrows)
        term(n) == phik[k(n) * right.nrows + l(n)]
                     * generic_function_inner(left.funcs[j(n) * left.nrows + k(n)],
                                              right.funcs[i(n) * right.nrows + l(n)])
        sq == SeqOf([idx \in 0..(nrows * ncols - 1) |->
                       SumTo([n \in 0..(total-1) |->
                                 IF i(n) * nrows + j(n) = idx THEN term(n) ELSE 0],
                             total)], nrows * ncols)
    IN [idx \in 0..(nrows * ncols - 1) |-> sq[idx + 1]]

(* dmrg_update_left with the result written row by row *)
dmrg_update_left_row_major(phik, left, right) ==
    LET nrows == left.ncols
        ncols == right.ncols
        total == ncols * nrows * left.nrows * right.nrows
        l(n) == n % right.nrows
        k(n) == (n \div right.nrows) % left.nrows
        j(n) == (n \div (right.nrows * left.nrows)) % nrows
        i(n) == n \div (right.nrows * left.nrows * nrows)
        term(n) == phik[l(n) * left.nrows + k(n)]
                     * generic_function_inner(left.funcs[j(n) * left.nrows + k(n)],
                                              right.funcs[i(n) * right.nrows + l(n)])
        sq == SeqOf([idx \in 0..(nrows * ncols - 1) |->
                       SumTo([n \in 0..(total-1) |->
                                 IF j(n) * ncols + i(n) = idx THEN term(n) ELSE 0],
                             total)], nrows * ncols)
    IN [idx \in 0..(nrows * ncols - 1) |-> sq[idx + 1]]

(* dmrg_update_left(phik, left, right), lines 126-153: val is calloc'ed     *)
(* with left->ncols * right->ncols zeros and every iteration (ii, jj, kk,   *)
(* ll) of the four loops adds its term to val[ii*nrows+jj].  Iteration n    *)
(* of the flattened loops has ll = n % right->nrows, kk the next digit,     *)
(* then jj, then ii.                                                        *)
dmrg_update_left(phik, left, right) ==
    LET nrows == left.ncols
        ncols == right.ncols
        total == ncols * nrows * left.nrows * right.nrows
        l(n) == n % right.nrows
        k(n) == (n \div right.nrows) % left.nrows
        j(n) == (n \div (right.nrows * left.nrows)) % nrows
        i(n) == n \div (right.nrows * left.nrows * nrows)
        term(n) == phik[l(n) * left.nrows + k(n)]
                     * generic_function_inner(left.funcs[j(n) * left.nrows + k(n)],
                                              right.funcs[i(n) * right.nrows + l(n)])
        sq == SeqOf([idx \in 0..(nrows * ncols - 1) |->
                       SumTo([n \in 0..(total-1) |->
                                 IF i(n) * nrows + j(n) = idx THEN term(n) ELSE 0],
                             total)], nrows * ncols)
    IN [idx \in 0..(nrows * ncols - 1) |-> sq[idx + 1]]

(* The overlap matrix Phi[k] of two trains: Phi[0] = [1.0], then one        *)
(* dmrg_update_left per core                                                *)
RECURSIVE OverlapLeft(_, _, _)
OverlapLeft(A, B, k) ==
    IF k = 0 THEN [idx \in {0} |-> 1]
    ELSE dmrg_update_left(OverlapLeft(A, B, k - 1), A.cores[k-1], B.cores[k-1])

(* function_train_inner: the last overlap matrix, 1 x 1 *)
function_train_inner(A, B, d) == OverlapLeft(A, B, d)[0]

(* Digit pos of n written in base NPts, as a grid point *)
Digit(n, pos) == ((n \div (NPts ^ pos)) % NPts) + 1

(* The values of the train on the first n points of the grid, point number *)
(* m having the coordinates Digit(m, 0), ..., Digit(m, d-1)                 *)
RECURSIVE Samples(_, _, _)
Samples(t, d, n) ==
    IF n = 0 THEN <<>>
    ELSE Append(Samples(t, d, n - 1),
                function_train_eval(t, d, [m \in 0..(d-1) |-> Digit(n - 1, m)]))

(* The unfolding at cut k of the values T of a train: one row per choice of *)
(* x[0..k-1], one column per choice of x[k..d-1]                            *)
Unfolding(T, d, k) ==
    [rho \in 0..(NPts ^ k - 1) |->
        [gam \in 0..(NPts ^ (d - k) - 1) |-> T[rho + gam * (NPts ^ k) + 1]]]

RECURSIVE Gcd(_, _)
Gcd(x, y) == IF y = 0 THEN x ELSE Gcd(y, x % y)

(* The greatest common divisor of row[0..n-1] *)
RECURSIVE RowGcd(_, _)
RowGcd(row, n) == IF n = 0 THEN 0 ELSE Gcd(Abs(row[n-1]), RowGcd(row, n - 1))

(* The row divided by the greatest common divisor of its entries *)
Reduced(row, nc) ==
    LET g == RowGcd(row, nc)
    IN IF g = 0 THEN row ELSE [cc \in 0..(nc-1) |-> row[cc] \div g]

(* The number of rows taken for the rank *)
MatrixRankAsRowCount(rows, cc, nc) == Cardinality(rows)

(* Euclid's algorithm on column cc: the row of least non-zero entry there  *)
(* is subtracted from the others until it alone is non-zero in the column   *)
RECURSIVE ClearColumn(_, _, _)
ClearColumn(rows, cc, nc) ==
    LET nz == {r \in rows : r[cc] # 0}
    IN IF Cardinality(nz) <= 1 THEN rows
       ELSE LET pv == CHOOSE r \in nz : \A q \in nz : Abs(r[cc]) <= Abs(q[cc])
                pp == IF pv[cc] < 0 THEN [c2 \in 0..(nc-1) |-> 0 - pv[c2]] ELSE pv
            IN ClearColumn(
                  {pp} \cup {Reduced([c2 \in 0..(nc-1) |->
                                         r[c2] - (r[cc] \div pp[cc]) * pp[c2]], nc) :
                                r \in rows \ {pv}},
                  cc, nc)

(* The rank of the matrix with the given set of rows, by integer            *)
(* elimination on the columns cc..nc-1                                      *)
RECURSIVE MatrixRank(_, _, _)
MatrixRank(rows, cc, nc) ==
    IF cc = nc \/ rows = {} THEN 0
    ELSE LET cl == ClearColumn(rows, cc, nc)
             nz == {r \in cl : r[cc] # 0}
         IN IF nz = {} THEN MatrixRank(cl, cc + 1, nc)
            ELSE 1 + MatrixRank(cl \ nz, cc + 1, nc)

(* The number of non-zero singular values of the matrix linking the two     *)
(* sides of cut k                                                           *)
LinkRank(T, d, k) ==
    LET U == Unfolding(T, d, k)
    IN MatrixRank({Reduced(U[rho], NPts ^ (d - k)) : rho \in DOMAIN U},
                  0, NPts ^ (d - k))

(* The link ranks at the cuts 0..n-1, as a sequence *)
RECURSIVE LinkRanks(_, _, _)
LinkRanks(T, d, n) ==
    IF n = 0 THEN <<>> ELSE Append(LinkRanks(T, d, n - 1), LinkRank(T, d, n - 1))

(* The largest of f[0], ..., f[n-1] *)
RECURSIVE MaxTo(_, _)
MaxTo(f, n) == IF n <= 0 THEN 0 ELSE Max(f[n-1], MaxTo(f, n - 1))

(* Tolerances of function_train_round: "tight" is below every non-zero     *)
(* singular value met (the 1e-10 of the tests), "loose" is any other        *)
RoundTols == {"tight", "loose"}

(* The ranks the truncation keeps where nz singular values are non-zero:    *)
(* never below 1, never a zero singular value                               *)
RoundRankChoices(nz, tol) ==
    IF tol = "tight" THEN {Max(1, nz)} ELSE 1..Max(1, nz)

(* function_train_round: the rank sequences the rounded train may have *)
function_train_round(t, d, tol) ==
    LET T == Samples(t, d, NPts ^ d)
        nz == LinkRanks(T, d, d + 1)
        top == Max(1, MaxTo([kk \in 0..d |-> nz[kk+1]], d + 1))
    IN {r \in [0..d -> 1..top] :
           \A kk \in 0..d : r[kk] \in RoundRankChoices(nz[kk+1], tol)}

----------------------------------------------------------------------------
(* The trains combined *)

(* The slopes of the two linear trains of the sum-and-round test, times 100 *)
SlopesA == <<100, 200, 300>>

SlopesB == <<150, -20, 331>>

LinearA == function_train_linear([kk \in 0..2 |-> SlopesA[kk+1]], 3)

LinearB == function_train_linear([kk \in 0..2 |-> SlopesB[kk+1]], 3)

NoTrain == [st |-> "none", ranks |-> <<>>, cores |-> <<>>]

(* fs are the univariate functions function_train_initsum is given *)
AlgStart(d, A, B, F) ==
    [op |-> "start", d |-> d, a |-> A, b |-> B, c |-> NoTrain,
     r |-> NoTrain, of |-> "none", tol |-> "none", fs |-> F, factor |-> 1,
     inner |-> 0, integral |-> 0]

(* d functions drawn by seed *)
SeedFuncs(d, seed) == GenFuncs(1, d, seed, 1)

(* Two trains of one dimension: the two linear trains of the test, or two   *)
(* trains of function values drawn by seed                                  *)
InitAlg ==
    /\ dim \in 2..MaxAlgDim
    /\ max_sweeps = 0
    /\ delta = DIFF
    /\ trains = <<>>
    /\ b = 1 /\ a = 2
    /\ accs = <<>>
    /\ phi = <<>> /\ psi = <<>>
    /\ ao = NULL /\ na = NULL /\ temp = NULL /\ sa = NULL /\ sna = NULL
    /\ pc = "algebra"
    /\ ii = 0 /\ sii = 0 /\ lsize = 0 /\ rsize = 0
    /\ nsweeps = 0 /\ nsmall = 0
    /\ ret = NULL
    /\ faults = {}
    /\ four = [pc |-> "none"]
    /\ freg = [pc |-> "none"]
    /\ steps = <<>>
    /\ prov = <<>>
    /\ \/ /\ dim = 3
          /\ alg = AlgStart(3, LinearA, LinearB, SeedFuncs(3, 0))
       \/ \E ra \in RankProfiles(dim), rb \in UniformProfiles(dim),
             seed \in 0..MaxSeed :
             alg = AlgStart(dim, TrainOfFuncs(dim, ra, seed),
                            TrainOfFuncs(dim, rb, seed + 1),
                            SeedFuncs(dim, seed))

AlgUnchanged ==
    UNCHANGED <<dim, max_sweeps, delta, trains, accs, phi, psi, a, b, ao, na,
                temp, sa, sna, pc, ii, sii, lsize, rsize, nsweeps, nsmall, ret,
                faults, four, freg, steps, prov>>

(* c = function_train_sum(a, b) *)
AlgSum ==
    /\ pc = "algebra"
    /\ alg.op = "start"
    /\ alg' = [alg EXCEPT !.op = "sum",
                          !.c = function_train_sum(alg.a, alg.b, alg.d)]
    /\ AlgUnchanged

(* c = function_train_product(a, b) *)
AlgProduct ==
    /\ pc = "algebra"
    /\ alg.op = "start"
    /\ alg' = [alg EXCEPT !.op = "product",
                          !.c = function_train_product(alg.a, alg.b, alg.d)]
    /\ AlgUnchanged

(* c = function_train_initsum(fs) *)
AlgInitSum ==
    /\ pc = "algebra"
    /\ alg.op = "start"
    /\ alg' = [alg EXCEPT !.op = "initsum",
                          !.c = function_train_initsum(alg.fs, alg.d)]
    /\ AlgUnchanged

(* Factors function_train_scale is tried with *)
Factors == {-3, -1, 0, 2}

(* c = a scaled by a factor; a is kept as it was before the call *)
AlgScale ==
    /\ pc = "algebra"
    /\ alg.op = "start"
    /\ \E s \in Factors :
          alg' = [alg EXCEPT !.op = "scale", !.factor = s,
                             !.c = function_train_scale(alg.a, alg.d, s)]
    /\ AlgUnchanged

(* inner = function_train_inner(a, b), and integral =                       *)
(* function_train_integrate(c) of c = function_train_product(a, b)          *)
AlgInner ==
    /\ pc = "algebra"
    /\ alg.op = "start"
    /\ LET prod == function_train_product(alg.a, alg.b, alg.d)
       IN alg' = [alg EXCEPT !.op = "inner", !.c = prod,
                             !.inner = function_train_inner(alg.a, alg.b, alg.d),
                             !.integral = function_train_integrate(prod, alg.d)]
    /\ AlgUnchanged

(* The train function_train_round is given: a, or the sum c *)
RoundArgument(g) == IF g.op = "sum" THEN g.c ELSE g.a

(* r = function_train_round(a, tol) or function_train_round(c, tol); the    *)
(* functions of the rounded cores are not followed                          *)
AlgRound ==
    /\ pc = "algebra"
    /\ alg.op \in {"start", "sum"}
    /\ \E tol \in RoundTols :
          \E rk \in function_train_round(RoundArgument(alg), alg.d, tol) :
             alg' = [alg EXCEPT !.op = "round", !.of = alg.op, !.tol = tol,
                                !.r = TrainOfRanks(alg.d, rk)]
    /\ AlgUnchanged

NextAlg ==
    AlgSum \/ AlgProduct \/ AlgRound \/ AlgInitSum \/ AlgScale \/ AlgInner

SpecAlg == InitAlg /\ [][NextAlg]_vars

----------------------------------------------------------------------------
(* Properties of the train algebra (specification SpecAlg) *)

(* Every core holds nrows * ncols functions on the grid *)
FuncsFollowed(t, d) ==
    \A kk \in 0..(d-1) :
        DOMAIN t.cores[kk].funcs = 0..(t.cores[kk].nrows * t.cores[kk].ncols - 1)

(* The two trains are the linear trains of the sum-and-round test *)
LinearPair == alg.a = LinearA /\ alg.b = LinearB

(* C8: round(f, eps) has ranks[0] = ranks[dim] = 1 and at every interior    *)
(* cut k, 1 <= round(f, eps).ranks[k] <= f.ranks[k]; rounding the           *)
(* rank-(1,4,4,1) sum of the two rank-2 linear trains at the tight          *)
(* tolerance gives ranks (1,2,2,1).                                         *)
C8_RoundRanks ==
    alg.op = "round" =>
        LET f == IF alg.of = "sum" THEN alg.c ELSE alg.a
        IN /\ WellFormed(alg.r, alg.d)
           /\ \A kk \in 1..(alg.d - 1) :
                 /\ 1 <= alg.r.ranks[kk]
                 /\ alg.r.ranks[kk] <= f.ranks[kk]
           /\ (LinearPair /\ alg.of = "sum" /\ alg.tol = "tight")
                 => /\ f.ranks = [kk \in 0..3 |-> IF kk \in {1, 2} THEN 4 ELSE 1]
                    /\ alg.r.ranks = [kk \in 0..3 |-> IF kk \in {1, 2} THEN 2 ELSE 1]

(* The sum of the two linear trains has been rounded at the tight tolerance *)
(* from ranks (1,4,4,1) to ranks (1,2,2,1)                                  *)
C8_Witness ==
    /\ alg.op = "round" /\ alg.of = "sum" /\ alg.tol = "tight"
    /\ LinearPair
    /\ alg.c.ranks[1] = 4 /\ alg.c.ranks[2] = 4
    /\ alg.r.ranks[1] = 2 /\ alg.r.ranks[2] = 2

(* C9: sum(a, b) has ranks[0] = ranks[dim] = 1 and, at every interior cut   *)
(* k, ranks[k] = a.ranks[k] + b.ranks[k]; the two rank-2 three-dimensional  *)
(* linear trains give ranks (1,4,4,1).                                      *)
C9_SumRanks ==
    alg.op = "sum" =>
        /\ WellFormed(alg.c, alg.d)
        /\ FuncsFollowed(alg.c, alg.d)
        /\ \A kk \in 1..(alg.d - 1) :
              alg.c.ranks[kk] = alg.a.ranks[kk] + alg.b.ranks[kk]
        /\ LinearPair
              => alg.c.ranks = [kk \in 0..3 |-> IF kk \in {1, 2} THEN 4 ELSE 1]

(* Two three-dimensional trains of different interior ranks have been added *)
C9_Witness ==
    /\ alg.op = "sum"
    /\ alg.d = 3
    /\ alg.a.ranks[1] = 2 /\ alg.a.ranks[2] = 1
    /\ alg.b.ranks[1] = 2 /\ alg.b.ranks[2] = 2
    /\ alg.c.ranks[1] = 4 /\ alg.c.ranks[2] = 3

(* C10: product(a, b) has ranks[k] = a.ranks[k] * b.ranks[k] at every cut k *)
(* (hence boundary ranks stay 1).                                           *)
C10_ProductRanks ==
    alg.op = "product" =>
        /\ WellFormed(alg.c, alg.d)
        /\ FuncsFollowed(alg.c, alg.d)
        /\ \A kk \in 0..alg.d :
              alg.c.ranks[kk] = alg.a.ranks[kk] * alg.b.ranks[kk]

(* Two three-dimensional trains of interior rank 2 have been multiplied *)
C10_Witness ==
    /\ alg.op = "product"
    /\ alg.d = 3
    /\ alg.a.ranks[1] = 2 /\ alg.a.ranks[2] = 2
    /\ alg.b.ranks[1] = 2 /\ alg.b.ranks[2] = 2
    /\ alg.c.ranks[1] = 4 /\ alg.c.ranks[2] = 4
    /\ alg.c.ranks[0] = 1 /\ alg.c.ranks[3] = 1

(* The grid points, numbered as Samples numbers them *)
GridPoints(d) == 1..(NPts ^ d)

(* Coordinate k of grid point number n *)
Coord(n, k) == Digit(n - 1, k)

(* C11: evaluation is additive over sum: at every point x,                  *)
(* eval(function_train_sum(a, b), x) = eval(a, x) + eval(b, x), and         *)
(* eval(function_train_initsum(f_0..f_{d-1}), x) = sum_k f_k(x_k), the      *)
(* initsum train having every interior rank equal to 2.                     *)
C11_EvalAdditive ==
    /\ alg.op = "sum" =>
          LET Tc == Samples(alg.c, alg.d, NPts ^ alg.d)
              Ta == Samples(alg.a, alg.d, NPts ^ alg.d)
              Tb == Samples(alg.b, alg.d, NPts ^ alg.d)
          IN \A n \in GridPoints(alg.d) : Tc[n] = Ta[n] + Tb[n]
    /\ alg.op = "initsum" =>
          LET Tc == Samples(alg.c, alg.d, NPts ^ alg.d)
          IN /\ \A n \in GridPoints(alg.d) :
                   Tc[n] = SumTo([kk \in 0..(alg.d - 1) |->
                                     alg.fs[kk][Coord(n, kk)]], alg.d)
             /\ \A kk \in 1..(alg.d - 1) : alg.c.ranks[kk] = 2
             /\ WellFormed(alg.c, alg.d)

(* A three-dimensional initsum train has been built from functions that do  *)
(* not vanish, and evaluates to a non-zero value somewhere                  *)
C11_Witness ==
    /\ alg.op = "initsum"
    /\ alg.d = 3
    /\ \A kk \in 0..2 : alg.fs[kk] # ZeroFunc
    /\ \E n \in GridPoints(3) :
          function_train_eval(alg.c, 3, [m \in 0..2 |-> Coord(n, m)]) # 0

(* C12: evaluation is multiplicative over product: at every point x,        *)
(* eval(function_train_product(a, b), x) = eval(a, x) * eval(b, x), the     *)
(* product being built core by core as the Kronecker product.               *)
C12_EvalMultiplicative ==
    alg.op = "product" =>
        LET Tc == Samples(alg.c, alg.d, NPts ^ alg.d)
            Ta == Samples(alg.a, alg.d, NPts ^ alg.d)
            Tb == Samples(alg.b, alg.d, NPts ^ alg.d)
        IN \A n \in GridPoints(alg.d) : Tc[n] = Ta[n] * Tb[n]

(* Two three-dimensional trains of rank 2 at a common cut have been         *)
(* multiplied and the product does not vanish at some point                 *)
C12_Witness ==
    /\ alg.op = "product"
    /\ alg.d = 3
    /\ alg.a.ranks[1] = 2 /\ alg.b.ranks[1] = 2 /\ alg.b.ranks[2] = 2
    /\ \E n \in GridPoints(3) :
          function_train_eval(alg.c, 3, [m \in 0..2 |-> Coord(n, m)]) # 0

(* C13: function_train_scale(a, factor) multiplies the represented         *)
(* function by factor and changes no rank: at every point x the value after *)
(* is factor times the value before, the ranks are unchanged, and the       *)
(* entries of one boundary core only are modified.                          *)
C13_ScaleOneBoundaryCore ==
    alg.op = "scale" =>
        LET Tc == Samples(alg.c, alg.d, NPts ^ alg.d)
            Ta == Samples(alg.a, alg.d, NPts ^ alg.d)
        IN /\ \A n \in GridPoints(alg.d) : Tc[n] = alg.factor * Ta[n]
           /\ alg.c.ranks = alg.a.ranks
           /\ WellFormed(alg.c, alg.d)
           /\ \E kb \in {0, alg.d - 1} :
                 \A kk \in 0..(alg.d - 1) :
                    kk # kb => alg.c.cores[kk] = alg.a.cores[kk]

(* A three-dimensional train that does not vanish somewhere has been scaled *)
(* by 2 and its first core has changed                                      *)
C13_Witness ==
    /\ alg.op = "scale"
    /\ alg.d = 3
    /\ alg.factor = 2
    /\ alg.c.cores[0] # alg.a.cores[0]
    /\ \E n \in GridPoints(3) :
          function_train_eval(alg.a, 3, [m \in 0..2 |-> Coord(n, m)]) # 0

(* C14: function_train_inner(a, b), computed by sweeping overlap matrices   *)
(* without building the product train, equals                               *)
(* function_train_integrate(function_train_product(a, b)).                  *)
C14_InnerIsIntegralOfProduct ==
    alg.op = "inner" => alg.inner = alg.integral

(* The inner product of two three-dimensional trains of rank 2 at a common  *)
(* cut has been taken and is not zero                                       *)
C14_Witness ==
    /\ alg.op = "inner"
    /\ alg.d = 3
    /\ alg.a.ranks[1] = 2 /\ alg.b.ranks[1] = 2 /\ alg.b.ranks[2] = 2
    /\ alg.inner # 0

----------------------------------------------------------------------------
(* fourier_expansion_approx_vec(poly, f, opts), fourier.c lines 222-306.    *)
(* Specification SpecFourier follows one call.                              *)

(* Largest poly->num_poly tried *)
MaxNumPoly == 102

(* "Maximum quadrature limited to 200 nodes" *)
QuadLimit == 200

(* Values fwrap_eval may return: 0 on success, any other int otherwise *)
EvalResults == {-1, 0, 1, 2}

(* Values fft may return: 0 on success *)
FftResults == {-1, 0, 1}

(* No call of dmrg_approx is under way *)
IdleDmrg ==
    /\ dim = 2
    /\ max_sweeps = 0
    /\ delta = DIFF
    /\ trains = <<>>
    /\ b = 1 /\ a = 2
    /\ accs = <<>>
    /\ phi = <<>> /\ psi = <<>>
    /\ ao = NULL /\ na = NULL /\ temp = NULL /\ sa = NULL /\ sna = NULL
    /\ pc = "idle"
    /\ ii = 0 /\ sii = 0 /\ lsize = 0 /\ rsize = 0
    /\ nsweeps = 0 /\ nsmall = 0
    /\ ret = NULL
    /\ faults = {}
    /\ alg = [op |-> "none"]
    /\ steps = <<>>
    /\ prov = <<>>

(* The coefficients of the expansion before the call *)
OldCoeffs(np) == [kk \in 0..(np-1) |-> <<"old", kk>>]

(* The coefficients the call stores: coeff[ii] / N *)
FftCoeffs(np, N) == [kk \in 0..(np-1) |-> <<"fft", kk, N>>]

(* What a read past the end of coeff yields *)
GarbageCoeffs(np) == [kk \in 0..(np-1) |-> <<"garbage", kk>>]

InitFourier ==
    /\ IdleDmrg
    /\ freg = [pc |-> "none"]
    /\ \E np \in 1..MaxNumPoly :
          four = [pc |-> "entry", num_poly |-> np, N |-> 0, nquad |-> 0,
                  nevals |-> 0, return_val |-> 1, eval_ok |-> FALSE,
                  fft_ok |-> FALSE, ccoeff |-> OldCoeffs(np),
                  before |-> OldCoeffs(np), ret |-> 0, fault |-> FALSE,
                  live |-> {}]

FourierUnchanged ==
    UNCHANGED <<dim, max_sweeps, delta, trains, accs, phi, psi, a, b, ao, na,
                temp, sa, sna, pc, ii, sii, lsize, rsize, nsweeps, nsmall, ret,
                faults, alg, freg, steps, prov>>

(* size_t N = (poly->num_poly-1)*2, line 233 *)
QuadNodes(np) == SizeT((np - 1) * 2)

(* The buffers calloc'ed before the evaluation, lines 239, 245 and 246 *)
EvalBuffers == {"quad_pts", "pts", "fvals"}

(* The buffers malloc'ed before the FFT, lines 264 and 265 *)
FftBuffers == {"coeff", "fvc"}

(* The buffers freed at lines 300-304 *)
FreedAtEnd == {"pts", "quad_pts", "fvals", "fvc", "coeff"}

(* lines 229-249: N, nquad, the buffers and the quadrature points; live is  *)
(* the set of the call's buffers that are allocated and not freed          *)
FourierSetup ==
    /\ four.pc = "entry"
    /\ four' = [four EXCEPT !.pc = "eval",
                            !.N = QuadNodes(four.num_poly),
                            !.nquad = QuadNodes(four.num_poly),
                            !.live = four.live \cup EvalBuffers]
    /\ FourierUnchanged

(* lines 256-259: the function is evaluated at nquad points; a non-zero     *)
(* result is returned as it is                                              *)
FourierEval ==
    /\ four.pc = "eval"
    /\ \E r \in EvalResults :
          four' = [four EXCEPT !.nevals = four.nquad,
                               !.return_val = r,
                               !.eval_ok = (r = 0),
                               !.pc = IF r # 0 THEN "returned" ELSE "fft",
                               !.ret = IF r # 0 THEN r ELSE 0]
    /\ FourierUnchanged

(* lines 263-274: a non-zero result of fft makes the call return 1 *)
FourierFFT ==
    /\ four.pc = "fft"
    /\ \E r \in FftResults :
          four' = [four EXCEPT !.fft_ok = (r = 0),
                               !.live = four.live \cup FftBuffers,
                               !.pc = IF r # 0 THEN "returned" ELSE "copy",
                               !.ret = IF r # 0 THEN 1 ELSE 0]
    /\ FourierUnchanged

(* coeff has N entries: coeff[0..num_poly-1] are entries of it *)
CoeffInBounds(np, N) == np <= N

(* lines 284-305: ccoeff[ii] = coeff[ii]/N for ii < num_poly, then return   *)
(* return_val.  With num_poly = 1, N is 0 and coeff[0] lies past the end of *)
(* coeff: the read may end the run or yield anything.                       *)
FourierCopy ==
    /\ four.pc = "copy"
    /\ \/ /\ CoeffInBounds(four.num_poly, four.N)
          /\ four' = [four EXCEPT !.ccoeff = FftCoeffs(four.num_poly, four.N),
                                  !.live = four.live \ FreedAtEnd,
                                  !.pc = "returned",
                                  !.ret = four.return_val]
       \/ /\ ~CoeffInBounds(four.num_poly, four.N)
          /\ four' = [four EXCEPT !.pc = "abort", !.fault = TRUE]
       \/ /\ ~CoeffInBounds(four.num_poly, four.N)
          /\ four' = [four EXCEPT !.ccoeff = GarbageCoeffs(four.num_poly),
                                  !.live = four.live \ FreedAtEnd,
                                  !.pc = "returned",
                                  !.ret = four.return_val,
                                  !.fault = TRUE]
    /\ FourierUnchanged

NextFourier == FourierSetup \/ FourierEval \/ FourierFFT \/ FourierCopy

SpecFourier == InitFourier /\ [][NextFourier]_vars

(* C15: fourier_expansion_approx_vec never evaluates the wrapped function   *)
(* at more than 200 quadrature nodes, whatever num_poly is.                 *)
C15_AtMostQuadLimitNodes ==
    four.nevals <= QuadLimit /\ four.nquad <= QuadLimit

(* C16: fourier_expansion_approx_vec returns 0 exactly when the evaluation  *)
(* and the FFT both succeed and a value > 0 otherwise, and whenever it      *)
(* returns non-zero the coefficients are as they were before the call.      *)
C16_ZeroIffSuccessElsePositive ==
    four.pc = "returned" =>
        /\ four.ret = 0 <=> (four.eval_ok /\ four.fft_ok)
        /\ four.ret # 0 => four.ret > 0 /\ four.ccoeff = four.before

----------------------------------------------------------------------------
(* The functional-regression example, fregress.c: main, lines 145-371.      *)
(* Specification SpecRegress follows one run of the program.                *)

(* Largest value given to -n *)
MaxData == 12

(* Most options on a command line *)
MaxArgs == 2

(* size_t ndata = 100 *)
DefaultData == 100

(* The digits "%zu" prints *)
DecimalDigits == <<"0", "1", "2", "3", "4", "5", "6", "7", "8", "9">>

RECURSIVE FormatZu(_)
(* sprintf "%zu": the decimal digits of n, most significant first *)
FormatZu(n) ==
    IF n < 10 THEN DecimalDigits[n + 1]
    ELSE FormatZu(n \div 10) \o DecimalDigits[(n % 10) + 1]

(* The options getopt_long hands to the switch of lines 171-202 *)
RegressOptions ==
    {<<"n", k>> : k \in 1..MaxData} \cup {<<"f", k>> : k \in 0..1}
    \cup {<<"b", k>> : k \in 0..1} \cup {<<"h", 0>>, <<"?", 0>>}

(* The command lines tried *)
RegressCommandLines ==
    UNION {[1..k -> RegressOptions] : k \in 0..MaxArgs}

(* The three names built at lines 344-346 *)
TestingFile(n) == "testing_funcs_n" \o FormatZu(n) \o ".dat"
TestingFtFile(n) == "testing_funcs_ft_n" \o FormatZu(n) \o ".dat"
TestingDiffFile(n) == "testing_diff_n" \o FormatZu(n) \o ".dat"

(* The four names of the usage text, lines 41-44 *)
UsageFiles(n) ==
    {"training_funcs.dat",
     "testing_funcs_n" \o FormatZu(n) \o ".dat",
     "testing_funcs_ft_n" \o FormatZu(n) \o ".dat",
     "testing_funcs_diff_n" \o FormatZu(n) \o ".dat"}

(* darray_save / function_train_save: the file is created or replaced *)
SaveFile(files, name, holds) ==
    {f \in files : f.name # name} \cup {[name |-> name, holds |-> holds]}

FileNames(files) == {f.name : f \in files}

InitRegress ==
    /\ IdleDmrg
    /\ four = [pc |-> "none"]
    /\ \E args \in RegressCommandLines :
          freg = [pc |-> "options", args |-> args, ndata |-> DefaultData,
                  function |-> 0, basis |-> 0, given |-> FALSE,
                  files |-> {}, exit_code |-> -1]

RegressUnchanged ==
    UNCHANGED <<dim, max_sweeps, delta, trains, accs, phi, psi, a, b, ao, na,
                temp, sa, sna, pc, ii, sii, lsize, rsize, nsweeps, nsmall, ret,
                faults, alg, four, steps, prov>>

(* lines 169-204: one turn of the option loop.  -h and an invalid option    *)
(* print the usage text and leave the program.                              *)
RegressOption ==
    /\ freg.pc = "options"
    /\ freg.args # <<>>
    /\ LET opt == Head(freg.args)
           rest == Tail(freg.args)
       IN  freg' =
             CASE opt[1] = "h" ->
                    [freg EXCEPT !.pc = "exited", !.exit_code = 0, !.args = rest]
               [] opt[1] = "?" ->
                    [freg EXCEPT !.pc = "exited", !.exit_code = 1, !.args = rest]
               [] opt[1] = "n" ->
                    [freg EXCEPT !.ndata = opt[2], !.given = TRUE, !.args = rest]
               [] opt[1] = "f" ->
                    [freg EXCEPT !.function = opt[2], !.args = rest]
               [] opt[1] = "b" ->
                    [freg EXCEPT !.basis = opt[2], !.args = rest]
    /\ RegressUnchanged

(* lines 198-240: options are done; the training data are generated and     *)
(* saved                                                                    *)
RegressSaveTraining ==
    /\ freg.pc = "options"
    /\ freg.args = <<>>
    /\ freg' = [freg EXCEPT
                  !.pc = "regress",
                  !.files = SaveFile(freg.files, "training_funcs.dat",
                                     "outputs")]
    /\ RegressUnchanged

(* lines 242-310: the regression runs and the train is saved *)
RegressRun ==
    /\ freg.pc = "regress"
    /\ freg' = [freg EXCEPT
                  !.pc = "test",
                  !.files = SaveFile(freg.files, "ft_saved.c3", "ft_final")]
    /\ RegressUnchanged

(* lines 312-349: the test data, the model's values and their difference    *)
(* are computed and saved under the three names built from ndata            *)
RegressSaveTesting ==
    /\ freg.pc = "test"
    /\ freg' = [freg EXCEPT
                  !.pc = "cleanup",
                  !.files =
                     SaveFile(
                       SaveFile(
                         SaveFile(freg.files, TestingFile(freg.ndata),
                                  "test_outputs"),
                         TestingFtFile(freg.ndata), "ft_output"),
                       TestingDiffFile(freg.ndata),
                       "ft_output - test_outputs")]
    /\ RegressUnchanged

(* lines 353-371: everything is freed and main returns *)
RegressReturn ==
    /\ freg.pc = "cleanup"
    /\ freg' = [freg EXCEPT !.pc = "returned", !.exit_code = 0]
    /\ RegressUnchanged

NextRegress ==
    RegressOption \/ RegressSaveTraining \/ RegressRun \/ RegressSaveTesting
    \/ RegressReturn

SpecRegress == InitRegress /\ [][NextRegress]_vars

(* C17: a run of the example with -n {number} that completes has written    *)
(* exactly the four files of the usage text, training_funcs.dat,            *)
(* testing_funcs_n{number}.dat, testing_funcs_ft_n{number}.dat and          *)
(* testing_funcs_diff_n{number}.dat, the last holding the difference        *)
(* between the true and the regressed model.                                *)
C17_WritesTheFourUsageFiles ==
    (freg.pc = "returned" /\ freg.given) =>
        /\ FileNames(freg.files) = UsageFiles(freg.ndata)
        /\ \E f \in freg.files :
              /\ f.name = "testing_funcs_diff_n" \o FormatZu(freg.ndata) \o ".dat"
              /\ f.holds = "ft_output - test_outputs"

----------------------------------------------------------------------------
(* Shapes in the sweeps of dmrg_approx (specification Spec) *)

(* Block p of heap h is live and has r rows *)
HasRows(h, p, r) == p # NULL /\ h[p].st = "live" /\ h[p].rows = r

(* Block p of heap h is live and has c columns *)
HasCols(h, p, c) == p # NULL /\ h[p].st = "live" /\ h[p].cols = c

(* C18: at every step of dmrg_sweep_lr, lsize is the number of rows of the  *)
(* stored Phi[k] and rsize is the number of columns of the stored Psi[k],   *)
(* whatever ranks the truncated SVD returned (here: in runs where no read   *)
(* has yet left its block).                                                 *)
C18_LRShapesCompatible ==
    (pc = "lr_loop" /\ sii < dim - 1 /\ faults = {}) =>
        /\ HasRows(accs, phi[sii], lsize)
        /\ HasCols(accs, psi[sii], LRrsize(trains[sa], dim, sii))

(* C19: at every step of dmrg_sweep_rl, rsize is the number of columns of   *)
(* the stored Psi[k] and lsize is the number of rows of Phi[k] as the       *)
(* left-to-right sweep left it, whatever ranks the truncated SVD returned   *)
(* (here: in runs where no read has yet left its block).                    *)
C19_RLShapesCompatible ==
    (pc = "rl_loop" /\ sii > -1 /\ faults = {}) =>
        /\ HasCols(accs, psi[sii], rsize)
        /\ HasRows(accs, phi[sii], RLlsize(trains[sa], sii))

(* C20: for every dim >= 2, dmrg_update_all_right touches only slots       *)
(* 0..dim-2 and cores 0..dim-1: the loop counter that starts at dim-3 never *)
(* wraps around, and the step about to run (a turn of the loop, or the      *)
(* final update of Psi[0]) reads slot ii+1 and core ii+2 only where they    *)
(* exist.                                                                   *)
C20_AllRightIndicesInRange ==
    /\ "oob_index" \notin faults
    /\ pc = "all_right_loop" =>
          /\ sii <= dim - 2
          /\ AllRightInBounds(dim, sii)

----------------------------------------------------------------------------
(* Ranks chosen by the sweeps (specification Spec) *)

(* Rank r set for the cut after core k lies between 1 and dimtemp, the      *)
(* column count of the target's core k, which is the target's rank there    *)
RankWithinTarget(r, k) ==
    /\ 1 <= r
    /\ r <= trains[b].cores[k].ncols
    /\ trains[b].cores[k].ncols = trains[b].ranks[k+1]

----------------------------------------------------------------------------
(* Order and writes of the sweeps (specification Spec) *)

(* Number of steps in the log that set core c *)
TimesSet(log, c) ==
    Cardinality({n \in 1..Len(log) : \E w \in log[n].cores : w[1] = c})

(* What the left-to-right sweep is to write at cut k of a train of d cores  *)
LRExpected(d, k) ==
    [dir |-> "lr", k |-> k,
     cores |-> IF k = d - 2
               THEN {<<k, "tempr*u">>, <<d - 1, "(s*vt)*templ">>}
               ELSE {<<k, "tempr*u">>},
     acc |-> IF k < d - 2
             THEN {[fam |-> "phi", slot |-> k + 1, from |-> k, newcore |-> k,
                    target |-> k]}
             ELSE {}]

(* C22: dmrg_sweep_lr visits the cuts 0, 1, ..., dim-2 in increasing order; *)
(* step k sets core k to (left factor) * U, the last step also sets core    *)
(* dim-1 to (S * V^T) * (right factor), so that every core is set exactly   *)
(* once; and at every step k < dim-2 Phi[k+1] is recomputed from Phi[k],    *)
(* the new core k and the target's core k.                                  *)
C22_LRVisitsCutsInOrder ==
    /\ pc = "lr_loop" =>
          /\ Len(steps) = sii
          /\ \A n \in 1..Len(steps) : steps[n] = LRExpected(dim, n - 1)
          /\ \A kk \in 1..(IF sii < dim - 2 THEN sii ELSE dim - 2) :
                prov.phi[kk] =
                   Append(prov.phi[kk-1],
                          [target |-> trains[b].cores[kk-1],
                           guess |-> trains[sna].cores[kk-1]])
    /\ pc = "rl_begin" =>
          /\ Len(steps) = dim - 1
          /\ \A n \in 1..Len(steps) : steps[n] = LRExpected(dim, n - 1)
          /\ \A c \in 0..(dim-1) :
                TimesSet(steps, c) = 1 /\ trains[temp].cores[c] # NoCore

(* The left-to-right sweep of a train of four cores has returned *)
C22_Witness ==
    /\ pc = "rl_begin"
    /\ dim = 4
    /\ Len(steps) = 3
    /\ steps[3].cores = {<<2, "tempr*u">>, <<3, "(s*vt)*templ">>}

(* What the right-to-left sweep is to write at cut k *)
RLExpected(k) ==
    [dir |-> "rl", k |-> k,
     cores |-> IF k = 0
               THEN {<<1, "vt*templ">>, <<0, "tempr*(u*s)">>}
               ELSE {<<k + 1, "vt*templ">>},
     acc |-> IF k > 0
             THEN {[fam |-> "psi", slot |-> k - 1, from |-> k,
                    newcore |-> k + 1, target |-> k + 1]}
             ELSE {}]

(* C23: dmrg_sweep_rl visits the cuts dim-2, dim-3, ..., 0 in decreasing    *)
(* order, once each, and stops: its counter never goes below -1 and the     *)
(* steps made plus the steps left are always dim-1.  Step k sets core k+1   *)
(* to V^T * (right factor), the final step also sets core 0 to              *)
(* (left factor) * (U * S), so that every core is set exactly once; and at  *)
(* every step k > 0 Psi[k-1] is recomputed from Psi[k], the target's core   *)
(* k+1 and the new core k+1.                                                *)
C23_RLVisitsCutsInOrderAndStops ==
    /\ pc = "rl_loop" =>
          /\ sii \in -1..(dim-2)
          /\ Len(steps) + (sii + 1) = dim - 1
          /\ \A n \in 1..Len(steps) : steps[n] = RLExpected(dim - 1 - n)
          /\ \A kk \in (IF sii < 0 THEN 0 ELSE sii)..(dim-3) :
                prov.psi[kk] =
                   <<[target |-> trains[b].cores[kk+2],
                      guess |-> trains[sna].cores[kk+2]]>> \o prov.psi[kk+1]
    /\ pc = "after_sweep" =>
          /\ Len(steps) = dim - 1
          /\ \A n \in 1..Len(steps) : steps[n] = RLExpected(dim - 1 - n)
          /\ \A c \in 0..(dim-1) :
                TimesSet(steps, c) = 1 /\ trains[na].cores[c] # NoCore

(* The right-to-left sweep of a train of four cores has returned *)
C23_Witness ==
    /\ pc = "after_sweep"
    /\ dim = 4
    /\ Len(steps) = 3
    /\ steps[3].cores = {<<1, "vt*templ">>, <<0, "tempr*(u*s)">>}

(* Slot k of an accumulator family and the block it points to are as before *)
SlotKept(arr, k) ==
    /\ arr[k]' = arr[k]
    /\ arr[k] # NULL => accs'[arr[k]] = accs[arr[k]]

(* C24: each sweep writes only its own accumulators.  dmrg_sweep_lr leaves  *)
(* every Psi[k] as it is and writes of Phi only the slots 1..dim-2, apart   *)
(* from allocating Phi[0] when it is NULL; dmrg_sweep_rl leaves every       *)
(* Phi[k] as it is and writes of Psi only the slots 0..dim-3, apart from    *)
(* allocating Psi[dim-2] when it is NULL.                                   *)
C24_SweepsWriteOwnAccumulators ==
    [][/\ pc \in {"lr_begin", "lr_loop"} =>
             /\ \A kk \in 0..(dim-2) : SlotKept(psi, kk)
             /\ SlotKept(phi, 0) \/ (pc = "lr_begin" /\ phi[0] = NULL)
       /\ pc \in {"rl_begin", "rl_loop"} =>
             /\ \A kk \in 0..(dim-2) : SlotKept(phi, kk)
             /\ SlotKept(psi, dim - 2) \/ (pc = "rl_begin" /\ psi[dim-2] = NULL)
      ]_vars

(* Both sweeps have run on a train of four cores and have replaced the      *)
(* blocks of Phi[1], Phi[2], Psi[0] and Psi[1]                              *)
C24_Witness ==
    /\ pc = "after_sweep"
    /\ dim = 4
    /\ nsweeps = 2
    /\ \A kk \in 0..2 : accs[phi[kk]].st = "live" /\ accs[psi[kk]].st = "live"

----------------------------------------------------------------------------
(* Accumulators and the guess they are used with (specification Spec) *)

(* The cores the right overlap Psi[k] of target and guess g is computed     *)
(* from: cores k+2, ..., dim-1 of both                                      *)
RightOverlapCores(g, k) ==
    [n \in 1..(dim - 2 - k) |->
        [target |-> trains[b].cores[k + 1 + n], guess |-> g.cores[k + 1 + n]]]

(* The cores the left overlap Phi[k] of guess g and target is computed      *)
(* from: cores 0, ..., k-1 of both                                          *)
LeftOverlapCores(g, k) ==
    [n \in 1..k |->
        [target |-> trains[b].cores[n - 1], guess |-> g.cores[n - 1]]]

(* C25: throughout dmrg_approx with dim >= 3, in every left-to-right sweep  *)
(* each Psi[k], k <= dim-3, is the right overlap computed from the target's *)
(* cores k+2..dim-1 and cores equal to cores k+2..dim-1 of the guess given  *)
(* to that sweep, and in every right-to-left sweep each Phi[k], k >= 1, is  *)
(* the left overlap computed from cores 0..k-1 of the guess given to that   *)
(* sweep and of the target: no sweep reads an accumulator computed from a   *)
(* train that has been replaced by a different one.                         *)
C25_AccumulatorsMatchGuess ==
    dim >= 3 =>
       /\ pc = "lr_loop" =>
             \A kk \in 0..(dim-3) :
                /\ psi[kk] # NULL /\ accs[psi[kk]].st = "live"
                /\ prov.psi[kk] = RightOverlapCores(trains[sa], kk)
       /\ pc = "rl_loop" =>
             \A kk \in 1..(dim-2) :
                /\ phi[kk] # NULL /\ accs[phi[kk]].st = "live"
                /\ prov.phi[kk] = LeftOverlapCores(trains[sa], kk)

(* The second left-to-right sweep is under way on a guess whose ranks are   *)
(* not those of the initial guess                                           *)
C25_Witness ==
    /\ pc = "lr_loop"
    /\ dim = 4
    /\ nsweeps = 2
    /\ sii = 1
    /\ \E kk \in 1..3 : trains[sa].ranks[kk] # trains[a].ranks[kk]

----------------------------------------------------------------------------
(* Block p is allocated and not freed *)
Allocated(h, p) == p # NULL /\ h[p].st = "live"

(* C26: in a dmrg_approx call with dim >= 3, every step of a sweep finds   *)
(* the slots Phi[ii] and Psi[ii] it passes to mqma, qmam, dmrg_update_left *)
(* or dmrg_update_right allocated and not freed, and the slot it frees     *)
(* before its update holds another block than the one the update reads.    *)
C26_SweepReadsAllocated ==
    dim >= 3 =>
       /\ (pc = "lr_loop" /\ sii < dim - 1) =>
             /\ Allocated(accs, phi[sii])
             /\ Allocated(accs, psi[sii])
             /\ sii < dim - 2 => phi[LRNextPhi(sii)] # phi[sii]
       /\ (pc = "rl_loop" /\ sii > -1) =>
             /\ Allocated(accs, phi[sii])
             /\ Allocated(accs, psi[sii])
             /\ sii > 0 => psi[RLNextPsi(sii)] # psi[sii]

(* The last step of the second left-to-right sweep is about to read its    *)
(* slots, every slot having been freed and rebuilt once                    *)
C26_Witness ==
    /\ dim >= 3 /\ pc = "lr_loop" /\ sii = dim - 2 /\ ii = 1
    /\ Allocated(accs, phi[sii]) /\ Allocated(accs, psi[sii])

----------------------------------------------------------------------------
(* Calls of dmrg_update_right and dmrg_update_left on two blocks of         *)
(* functions and an overlap matrix, the values followed                    *)

(* The overlap matrix the call is given: m doubles, drawn by seed *)
GenMatrix(m, seed) == [idx \in 0..(m - 1) |-> ((3 * idx + 2 * seed + 1) % 5) - 2]

(* The arguments of the call as the caller holds them *)
UpdateArguments(g) == [mat |-> g.mat, left |-> g.left, right |-> g.right]

(* The caller holds an overlap matrix Psi (left->ncols x right->ncols) or   *)
(* Phi (left->nrows x right->nrows) and two blocks                          *)
UpdateStart(fam, L, R, seed) ==
    [op |-> "start", fam |-> fam, left |-> L, right |-> R,
     mat |-> IF fam = "psi" THEN GenMatrix(L.ncols * R.ncols, seed)
                            ELSE GenMatrix(L.nrows * R.nrows, seed),
     before |-> "none", val |-> <<>>, calls |-> 0]

InitUpdate ==
    /\ dim = 2
    /\ max_sweeps = 0
    /\ delta = DIFF
    /\ trains = <<>>
    /\ b = 1 /\ a = 2
    /\ accs = <<>>
    /\ phi = <<>> /\ psi = <<>>
    /\ ao = NULL /\ na = NULL /\ temp = NULL /\ sa = NULL /\ sna = NULL
    /\ pc = "update"
    /\ ii = 0 /\ sii = 0 /\ lsize = 0 /\ rsize = 0
    /\ nsweeps = 0 /\ nsmall = 0
    /\ ret = NULL
    /\ faults = {}
    /\ four = [pc |-> "none"]
    /\ freg = [pc |-> "none"]
    /\ steps = <<>>
    /\ prov = <<>>
    /\ \E fam \in {"psi", "phi"}, lr \in 1..MaxRank, lc \in 1..MaxRank,
          rr \in 1..MaxRank, rc \in 1..MaxRank, seed \in 0..MaxSeed :
          alg = UpdateStart(fam,
                            [nrows |-> lr, ncols |-> lc,
                             funcs |-> GenFuncs(lr, lc, seed, 0)],
                            [nrows |-> rr, ncols |-> rc,
                             funcs |-> GenFuncs(rr, rc, seed + 1, 1)],
                            seed)

(* val = dmrg_update_right(psikp, left, right), lines 59-82 *)
UpdateRight ==
    /\ pc = "update"
    /\ alg.op = "start" /\ alg.fam = "psi"
    /\ alg' = [alg EXCEPT !.op = "right",
                          !.before = UpdateArguments(alg),
                          !.val = dmrg_update_right(alg.mat, alg.left, alg.right),
                          !.calls = Cardinality(dmrg_update_right_calls(alg.left,
                                                                        alg.right))]
    /\ AlgUnchanged

(* val = dmrg_update_left(phik, left, right), lines 126-153 *)
UpdateLeft ==
    /\ pc = "update"
    /\ alg.op = "start" /\ alg.fam = "phi"
    /\ alg' = [alg EXCEPT !.op = "left",
                          !.before = UpdateArguments(alg),
                          !.val = dmrg_update_left(alg.mat, alg.left, alg.right)]
    /\ AlgUnchanged

NextUpdate == UpdateRight \/ UpdateLeft

SpecUpdate == InitUpdate /\ [][NextUpdate]_vars

(* Entry (r, c) of the column-major matrix m with nr rows *)
ColMajor(m, nr, r, c) == m[c * nr + r]

(* sum over k < nk and l < nl of t[k][l] *)
DoubleSum(t, nk, nl) ==
    SumTo([k \in 0..(nk - 1) |-> SumTo([l \in 0..(nl - 1) |-> t[k][l]], nl)], nk)

(* C27: dmrg_update_right(P, left, right) returns a left.nrows x            *)
(* right.nrows column-major matrix V with V[j,i] the sum over k <           *)
(* left.ncols and l < right.ncols of P[k,l] * inner(left(j,k), right(i,l)), *)
(* P being read as a left.ncols x right.ncols column-major matrix; it makes *)
(* left.nrows * right.nrows * left.ncols * right.ncols inner products and   *)
(* leaves P, left and right as they were.                                   *)
C27_UpdateRightContracts ==
    (pc = "update" /\ alg.op = "right") =>
       LET L == alg.left
           R == alg.right
       IN /\ DOMAIN alg.val = 0..(L.nrows * R.nrows - 1)
          /\ \A j \in 0..(L.nrows - 1), i \in 0..(R.nrows - 1) :
                ColMajor(alg.val, L.nrows, j, i) =
                   DoubleSum([k \in 0..(L.ncols - 1) |-> [l \in 0..(R.ncols - 1) |->
                                 ColMajor(alg.mat, L.ncols, k, l)
                                   * generic_function_inner(Entry(L, j, k),
                                                            Entry(R, i, l))]],
                             L.ncols, R.ncols)
          /\ alg.calls = L.nrows * R.nrows * L.ncols * R.ncols
          /\ UpdateArguments(alg) = alg.before

(* A call on two 2 x 2 blocks and a matrix that is not symmetric, with a    *)
(* result that is not symmetric                                            *)
C27_Witness ==
    /\ pc = "update" /\ alg.op = "right"
    /\ alg.left.nrows = 2 /\ alg.left.ncols = 2
    /\ alg.right.nrows = 2 /\ alg.right.ncols = 2
    /\ alg.mat[1] # alg.mat[2]
    /\ alg.val[1] # alg.val[2]

(* C28: dmrg_update_left(Phi, left, right) returns a left.ncols x           *)
(* right.ncols column-major matrix V with V[j,i] the sum over k <           *)
(* left.nrows and l < right.nrows of Phi[k,l] * inner(left(k,j),            *)
(* right(l,i)), Phi being read as a left.nrows x right.nrows column-major   *)
(* matrix; it leaves Phi, left and right as they were.                      *)
C28_UpdateLeftContracts ==
    (pc = "update" /\ alg.op = "left") =>
       LET L == alg.left
           R == alg.right
       IN /\ DOMAIN alg.val = 0..(L.ncols * R.ncols - 1)
          /\ \A j \in 0..(L.ncols - 1), i \in 0..(R.ncols - 1) :
                ColMajor(alg.val, L.ncols, j, i) =
                   DoubleSum([k \in 0..(L.nrows - 1) |-> [l \in 0..(R.nrows - 1) |->
                                 ColMajor(alg.mat, L.nrows, k, l)
                                   * generic_function_inner(Entry(L, k, j),
                                                            Entry(R, l, i))]],
                             L.nrows, R.nrows)
          /\ UpdateArguments(alg) = alg.before

(* A call on two 2 x 2 blocks and a matrix that is not symmetric, with a    *)
(* result that is not symmetric                                            *)
C28_Witness ==
    /\ pc = "update" /\ alg.op = "left"
    /\ alg.left.nrows = 2 /\ alg.left.ncols = 2
    /\ alg.right.nrows = 2 /\ alg.right.ncols = 2
    /\ alg.mat[1] # alg.mat[2]
    /\ alg.val[1] # alg.val[2]

----------------------------------------------------------------------------
(* A sweep of dmrg_sweep_lrl is under way *)
InSweep == pc \in {"lr_begin", "lr_loop", "rl_begin", "rl_loop"}

(* A step of dmrg_sweep_lr or of dmrg_sweep_rl itself, its return included; *)
(* the step that leaves "rl_loop" with the loop over is the return of       *)
(* dmrg_sweep_rl followed by the rest of dmrg_sweep_lrl                     *)
InSweepFunction ==
    \/ pc \in {"lr_begin", "lr_loop", "rl_begin"}
    \/ pc = "rl_loop" /\ sii > -1

(* C29: no step of dmrg_approx or of the sweeps changes or frees the        *)
(* target b; no step of dmrg_sweep_lr or dmrg_sweep_rl changes or frees the *)
(* guess sa it was given, and no step of dmrg_sweep_lrl changes or frees    *)
(* its guess ao; each sweep allocates the train it returns; and the train   *)
(* dmrg_approx returns is another one than the working copy it frees, and   *)
(* is live after that free.                                                 *)
C29_TargetAndGuessKept ==
    [][/\ trains'[b] = trains[b]
       /\ InSweepFunction => trains'[sa] = trains[sa]
       /\ InSweep => trains'[ao] = trains[ao]
       /\ pc \in {"lr_begin", "rl_begin"} =>
             /\ sna' \notin DOMAIN trains
             /\ sna' \in DOMAIN trains'
             /\ trains'[sna'].st = "live"
       /\ pc = "cleanup" =>
             /\ ret' = na
             /\ na # NULL => /\ na # ao
                             /\ trains'[na].st = "live"
                             /\ trains'[ao].st = "freed"]_vars

(* dmrg_approx has returned the train of its second sweep; the target is    *)
(* as it was and the working copies are freed                               *)
C29_Witness ==
    /\ pc = "done" /\ nsweeps = 2 /\ ret # NULL
    /\ trains[ret].st = "live"
    /\ trains[b].st = "live"
    /\ \E t \in DOMAIN trains : t # ret /\ trains[t].st = "freed"

----------------------------------------------------------------------------
(* C30: when fourier_expansion_approx_vec has returned, on success, after a *)
(* failed evaluation or after a failed FFT, none of the buffers quad_pts,   *)
(* pts, fvals, coeff and fvc it allocated is still allocated.               *)
C30_EveryBufferReleased ==
    four.pc = "returned" => four.live = {}

(* The successful return does release all five buffers *)
C30_ReleasedOnSuccess ==
    /\ four.pc = "returned" /\ four.eval_ok /\ four.fft_ok
    /\ four.live = {}

============================================================================
